---- MODULE Spec2Model ----
(***************************************************************************)
(* The export pipeline of conv_editor: the conversation encoder            *)
(* (TrainingExporter, export/exporter.py) and the ragged dataset writer    *)
(* (HDF5Writer, export/hdf5_writer.py).                                    *)
(*                                                                         *)
(* A text is a sequence of pieces (atomic strings); concatenation of texts *)
(* is \o.  The tokenizer is an external adapter: Encode maps each piece to *)
(* its ids through a fixed vocabulary in which some pieces take one id,    *)
(* some two, and the empty piece none.                                     *)
(***************************************************************************)
EXTENDS Integers, Sequences, FiniteSets, TLC

VARIABLES
    \* ---- TrainingExporter.process_conversation ----
    include_reasoning,   \* config.include_reasoning
    assistant_name,      \* config.assistant_name
    conv,                \* the items of conversation_data read so far
    all_input_ids,       \* the list all_input_ids
    all_labels,          \* the list all_labels
    pc,                  \* position of process_conversation / _process_item
    log,                 \* history: one record per emission (extend) step
    nread,               \* history: number of input elements read so far
    result,              \* the returned dict, or NoResult before the return
    \* ---- HDF5Writer ----
    file,                \* self.file: None or the open handle
    size,                \* self.size
    ds_input_ids,        \* rows of the dataset "input_ids"
    ds_labels,           \* rows of the dataset "labels"
    last_call,           \* history: the last writer call and its outcome
    stored,              \* history: number of append calls that stored a row
    \* ---- ExportWorker and the dialog that started it ----
    corpus,              \* the *.json files under root_directory: path -> content
    sysprompt,           \* root_directory/sysprompt.txt: None or its content
    tokenizer_file,      \* whether config.tokenizer_path can be loaded
    encoder_defect,      \* whether process_conversation returns unequal streams
    wpc,                 \* position of ExportWorker.run
    _is_running,         \* self._is_running
    files_to_process,    \* the list files_to_process
    file_index,          \* number of loop iterations begun (i + 1 of the body)
    conversation_data,   \* the validated conversation of the current file
    tokenized_data,      \* the record of the current file
    exc,                 \* the exception propagating out of run's try body
    events,              \* the signals emitted so far, in order
    box,                 \* the message box the dialog showed for the run
    outcomes,            \* history: how the iteration of each file ended
    loop_end,            \* history: how the for loop was left
    stop_at,             \* history: where run was when stop() was called
    special_tokens,      \* config.special_tokens as the dialog built it
    now,                 \* the minute datetime.now() was last read in
    previous,            \* the datasets an earlier run of the dialog left
    \* ---- Conversation, its move commands and the UndoManager ----
    conv_data,           \* Conversation.data: the list of items
    command,             \* the move command under test, or NoCommand
    made,                \* history: the calls made on the command, in order
    constructed,         \* history: the list when the command was constructed
    executed,            \* history: the list when the first execute returned
    undo_stack,          \* UndoManager.undo_stack
    redo_stack,          \* UndoManager.redo_stack
    clean_index,         \* UndoManager.clean_index
    saved,               \* history: the list at the most recent set_clean or clear
    \* ---- OpenAIService and the threads that call it ----
    is_generating,       \* self._is_running of the service
    _lock,               \* self._lock: the thread that holds it, or NoThread
    streams              \* per calling thread: where its generator stands

encVars == <<include_reasoning, assistant_name, conv, all_input_ids, all_labels,
             pc, log, nread, result>>
wrVars == <<file, size, ds_input_ids, ds_labels, last_call, stored>>
wkVars == <<corpus, sysprompt, tokenizer_file, encoder_defect, special_tokens,
                   now, previous, wpc, _is_running,
            files_to_process, file_index, conversation_data, tokenized_data,
            exc, events, box, outcomes, loop_end, stop_at>>
edVars == <<conv_data, command, made, constructed, executed,
            undo_stack, redo_stack, clean_index, saved>>
svVars == <<is_generating, _lock, streams>>
uiVars == <<edVars, svVars>>
vars == <<encVars, wrVars, wkVars, uiVars>>

(***************************************************************************)
(* Bounds of the model.                                                    *)
(***************************************************************************)
\* input elements (items, segments, tool blocks and their entries) per conversation
MaxSize == 4
\* rows written by one writer
MaxRows == 3
\* minutes the clock can advance during the runs of one dialog
MaxClock == 2

(***************************************************************************)
(* Configuration (export/config.py).                                       *)
(***************************************************************************)
bos == "<|begin_of_text|>"
eot == "<|eot_id|>"
header_start == "<|start_header_id|>"
header_end == "<|end_header_id|>"
think_start == "<think>"
think_end == "</think>"
tools_start == "<tools>"
tools_end == "</tools>"
tool_call_start == "<tool_call>"
tool_call_end == "</tool_call>"
tool_response_start == "<tool_response>"
tool_response_end == "</tool_response>"
cross_entropy_ignore_index == -100

\* the values of config.assistant_name the model runs with
AssistantNames == {"assistant", "model"}
\* Item.role is any string; these are the ones the model draws
Roles == {"user", "assistant"}

(***************************************************************************)
(* Texts and the tokenizer adapter.                                        *)
(***************************************************************************)
\* str: a sequence of pieces; "" is the empty sequence
Str(p) == IF p = "" THEN <<>> ELSE <<p>>

\* pieces of segment texts the model draws ("" is the empty text)
SegTexts == {"", "Hello"}

\* datetime.now().strftime("%d %B %Y %I:%M %p") in the minutes the clock can
\* show (export_worker.py:104)
TimeTexts ==
    << "01 November 2026 09:00 AM", "01 November 2026 09:01 AM",
       "01 November 2026 09:02 AM", "01 November 2026 09:03 AM" >>

\* The vocabulary of the tokenizer the model runs with: piece -> ids.
\* Pieces listed in TwoIdPieces are split in two ids, every other non-empty
\* piece has one id; ids are non-negative and differ between pieces.
VocabTable ==
    << bos, eot, header_start, header_end, "\n", think_start, think_end,
       tools_start, tools_end, tool_call_start, tool_call_end,
       tool_response_start, tool_response_end,
       "system", "user", "assistant", "model", "Hi", "Hello",
       "[", "]", ",", "{}", "{\"x\":1}", "}", "\"",
       "{\"name\":\"", "\",\"arguments\":", "\",\"content\":",
       "{\"type\":\"function\",\"name\":\"", "\",\"description\":\"",
       "\",\"parameters\":{\"type\":\"object\",\"properties\":{},\"required\":[]}}",
       "f", "g", "ok" >> \o TimeTexts
TwoIdPieces == {think_start, think_end, "Hello", "{\"x\":1}"}

\* the place of piece p in the vocabulary (every piece of the model has one)
PieceIndex(p) == CHOOSE i \in 1..Len(VocabTable) : VocabTable[i] = p

TokenIds(p) ==
    LET i == PieceIndex(p) IN
    IF p \in TwoIdPieces THEN <<2 * i, 2 * i + 1>> ELSE <<2 * i>>

\* tokenizer.encode(text, add_special_tokens=False).ids
RECURSIVE Encode(_)
Encode(text) ==
    IF text = <<>> THEN <<>>
    ELSE TokenIds(Head(text)) \o Encode(Tail(text))

\* what decode gives for an id that is half of a two-id piece on its own
Undecodable == "<?>"

\* tokenizer.decode(ids, skip_special_tokens=False): the pieces the ids stand
\* for, in order (special tokens are kept)
RECURSIVE Decode(_)
Decode(ids) ==
    IF ids = <<>> THEN <<>>
    ELSE LET p == VocabTable[Head(ids) \div 2] IN
         IF p \notin TwoIdPieces THEN <<p>> \o Decode(Tail(ids))
         ELSE IF Head(ids) % 2 = 0 /\ Len(ids) >= 2 /\ ids[2] = Head(ids) + 1
              THEN <<p>> \o Decode(Tail(Tail(ids)))
              ELSE <<Undecodable>> \o Decode(Tail(ids))

\* [x] * n
RECURSIVE Repeat(_, _)
Repeat(x, n) ==
    IF n <= 0 THEN <<>> ELSE <<x>> \o Repeat(x, n - 1)

\* sep.join(strs) for a list of texts
RECURSIVE Join(_, _)
Join(sep, strs) ==
    IF strs = <<>> THEN <<>>
    ELSE IF Len(strs) = 1 THEN strs[1]
    ELSE strs[1] \o sep \o Join(sep, Tail(strs))

(***************************************************************************)
(* The data model (core/models.py) and JSON serialization.                 *)
(***************************************************************************)
\* a value of a Dict[str, Any] / Any field: two that json.dumps accepts and one
\* (a Python object that is no JSON value) on which it raises TypeError
Unserializable == "<unserializable>"
AnyValues == {"{\"x\":1}", Unserializable}

TextSegment == [text : SegTexts, learnable : BOOLEAN]
ToolCall == [name : {"f"}, arguments : AnyValues]
ToolResult == [name : {"f"}, content : AnyValues]
ToolDefinition == [name : {"f"}, description : {"ok"}]

JsonFails == <<"TypeError">>

\* json.dumps(call.model_dump(exclude_none=True), separators=(",", ":"))
DumpCall(c) ==
    IF c.arguments = Unserializable THEN JsonFails
    ELSE <<"{\"name\":\"", c.name, "\",\"arguments\":", c.arguments, "}">>

\* the JSON object of one ToolResult
DumpResult(r) ==
    IF r.content = Unserializable THEN JsonFails
    ELSE <<"{\"name\":\"", r.name, "\",\"content\":", r.content, "}">>

\* the JSON object of one ToolDefinition (no properties, nothing required)
DumpDefinition(d) ==
    <<"{\"type\":\"function\",\"name\":\"", d.name, "\",\"description\":\"", d.description,
      "\",\"parameters\":{\"type\":\"object\",\"properties\":{},\"required\":[]}}">>

\* json.dumps of a list whose elements dump to objs (compact separators)
DumpList(objs) ==
    IF \E i \in 1..Len(objs) : objs[i] = JsonFails THEN JsonFails
    ELSE <<"[">> \o Join(<<",">>, objs) \o <<"]">>

\* TrainingExporter._serialize_tools
_serialize_tools(content) ==
    LET json_str == DumpList([i \in 1..Len(content.definitions) |->
                                  DumpDefinition(content.definitions[i])]) IN
    IF json_str = JsonFails
    THEN <<tools_start, "[", "]", tools_end>>
    ELSE <<tools_start>> \o json_str \o <<tools_end>>

\* fault variant of _serialize_tool_calls: the fallback is the empty list
_serialize_tool_calls_as_list(content) ==
    LET dumps == [i \in 1..Len(content.calls) |-> DumpCall(content.calls[i])] IN
    IF \E i \in 1..Len(dumps) : dumps[i] = JsonFails
    THEN <<tool_call_start, "[", "]", tool_call_end>>
    ELSE Join(<<"\n">>, [i \in 1..Len(dumps) |->
                             <<tool_call_start>> \o dumps[i] \o <<tool_call_end>>])

\* TrainingExporter._serialize_tool_calls
_serialize_tool_calls(content) ==
    LET dumps == [i \in 1..Len(content.calls) |-> DumpCall(content.calls[i])] IN
    IF \E i \in 1..Len(dumps) : dumps[i] = JsonFails
    THEN <<tool_call_start, "{}", tool_call_end>>
    ELSE Join(<<"\n">>, [i \in 1..Len(dumps) |->
                             <<tool_call_start>> \o dumps[i] \o <<tool_call_end>>])

\* TrainingExporter._serialize_tool_results
_serialize_tool_results(content) ==
    LET json_str == DumpList([i \in 1..Len(content.results) |->
                                  DumpResult(content.results[i])]) IN
    IF json_str = JsonFails
    THEN <<tool_response_start, "[", "]", tool_response_end>>
    ELSE <<tool_response_start>> \o json_str \o <<tool_response_end>>

(***************************************************************************)
(* TrainingExporter: the label rule of every emission.                     *)
(***************************************************************************)
NoResult == [returned |-> FALSE]

\* the item _process_item is working on
item == conv[Len(conv)]
\* exporter.py:73
is_assistant_turn == item.role = assistant_name

\* exporter.py:61  [ignore] * len(bos_encoding.ids)
BosLabels(ids) == Repeat(cross_entropy_ignore_index, Len(ids))

\* exporter.py:78  [ignore] * len(header_encoding.ids)
HeaderLabels(ids) == Repeat(cross_entropy_ignore_index, Len(ids))

\* fault variant of TextLabels: one ignore label instead of one per id
TextLabelsOneIgnore(segment, is_assistant, ids) ==
    IF segment.learnable /\ is_assistant
    THEN ids
    ELSE <<cross_entropy_ignore_index>>

\* fault variant of TextLabels: the role is not looked at
TextLabelsRoleBlind(segment, is_assistant, ids) ==
    IF segment.learnable
    THEN ids
    ELSE Repeat(cross_entropy_ignore_index, Len(ids))

\* exporter.py:85-88  a segment of a TextContent
TextLabels(segment, is_assistant, ids) ==
    IF segment.learnable /\ is_assistant
    THEN ids
    ELSE Repeat(cross_entropy_ignore_index, Len(ids))

\* exporter.py:94 and 106  think_start / think_end
ThinkLabels(ids) == ids

\* fault variant of ReasoningLabels: masked like a text segment
ReasoningLabelsRoleGated(segment, ids) ==
    IF segment.learnable /\ is_assistant_turn
    THEN ids
    ELSE Repeat(cross_entropy_ignore_index, Len(ids))

\* exporter.py:99-102  a segment of a ReasoningContent
ReasoningLabels(segment, ids) ==
    IF segment.learnable
    THEN ids
    ELSE Repeat(cross_entropy_ignore_index, Len(ids))

\* fault variant of ToolCallLabels: learnable on assistant turns only
ToolCallLabelsRoleGated(ids) ==
    IF is_assistant_turn THEN ids ELSE Repeat(cross_entropy_ignore_index, Len(ids))

\* fault variant of ToolCallLabels: the ids are copied in reverse order
ToolCallLabelsReversed(ids) == [k \in 1..Len(ids) |-> ids[Len(ids) + 1 - k]]

\* exporter.py:112
ToolCallLabels(ids) == ids

\* exporter.py:118
ToolsLabels(ids) == Repeat(cross_entropy_ignore_index, Len(ids))

\* fault variant of ToolResultsLabels: learnable on assistant turns
ToolResultsLabelsRoleGated(ids) ==
    IF is_assistant_turn THEN ids ELSE Repeat(cross_entropy_ignore_index, Len(ids))

\* exporter.py:124
ToolResultsLabels(ids) == Repeat(cross_entropy_ignore_index, Len(ids))

\* fault variant of EotLabels: the role is not looked at
EotLabelsAlwaysLearnable(is_assistant, ids) == ids

\* exporter.py:128-131
EotLabels(is_assistant, ids) ==
    IF is_assistant
    THEN ids
    ELSE Repeat(cross_entropy_ignore_index, Len(ids))

(***************************************************************************)
(* TrainingExporter.process_conversation, one action per emission.         *)
(***************************************************************************)
LastBlockIs(type) ==
    /\ Len(item.content) > 0
    /\ item.content[Len(item.content)].type = type

\* conv with block b appended to the content of the current item
WithBlock(b) ==
    [conv EXCEPT ![Len(conv)].content = Append(@, b)]

\* conv with segment s appended to the last block of the current item
WithSegment(s) ==
    [conv EXCEPT ![Len(conv)].content[Len(item.content)].segments = Append(@, s)]

\* fault variant of Extend: the ids and labels are put in front of the streams
ExtendInFront(kind, c, ids, labels) ==
    /\ all_input_ids' = ids \o all_input_ids
    /\ all_labels' = labels \o all_labels
    /\ log' = Append(log, [kind |-> kind,
                           item |-> Len(c),
                           block |-> IF c = <<>> THEN 0 ELSE Len(c[Len(c)].content),
                           seg |-> IF kind \in {"text", "reason"}
                                   THEN Len(c[Len(c)].content[Len(c[Len(c)].content)].segments)
                                   ELSE 0,
                           start |-> Len(all_input_ids),
                           lstart |-> Len(all_labels),
                           ids |-> ids])

\* all_input_ids.extend(ids); all_labels.extend(labels)
Extend(kind, c, ids, labels) ==
    /\ all_input_ids' = all_input_ids \o ids
    /\ all_labels' = all_labels \o labels
    /\ log' = Append(log, [kind |-> kind,
                           item |-> Len(c),
                           block |-> IF c = <<>> THEN 0 ELSE Len(c[Len(c)].content),
                           seg |-> IF kind \in {"text", "reason"}
                                   THEN Len(c[Len(c)].content[Len(c[Len(c)].content)].segments)
                                   ELSE 0,
                           start |-> Len(all_input_ids),
                           lstart |-> Len(all_labels),
                           ids |-> ids])

EncInit ==
    /\ include_reasoning \in BOOLEAN
    /\ assistant_name \in AssistantNames
    /\ conv = <<>>
    /\ all_input_ids = <<>>
    /\ all_labels = <<>>
    /\ pc = "bos"
    /\ log = <<>>
    /\ nread = 0
    /\ result = NoResult

\* exporter.py:59-61
EmitBOS ==
    /\ pc = "bos"
    /\ LET ids == Encode(Str(bos)) IN Extend("bos", conv, ids, BosLabels(ids))
    /\ pc' = "items"
    /\ UNCHANGED <<include_reasoning, assistant_name, conv, nread, result, wrVars, wkVars, uiVars>>

\* exporter.py:63-64, 72-78: the loop takes the next item; its header is emitted
EmitHeader ==
    /\ pc = "items"
    /\ nread < MaxSize
    /\ \E role \in Roles :
         LET c == Append(conv, [role |-> role, content |-> <<>>])
             header_str == Str(header_start) \o Str(role) \o Str(header_end) \o <<"\n">>
             ids == Encode(header_str)
         IN /\ conv' = c
            /\ Extend("header", c, ids, HeaderLabels(ids))
    /\ pc' = "blocks"
    /\ nread' = nread + 1
    /\ UNCHANGED <<include_reasoning, assistant_name, result, wrVars, wkVars, uiVars>>

\* exporter.py:81-88: one segment of a TextContent (a segment that does not
\* follow a text segment opens a new block)
EmitTextSegment ==
    /\ pc = "blocks"
    /\ nread < MaxSize
    /\ \E segment \in TextSegment :
         LET c == IF LastBlockIs("text")
                  THEN WithSegment(segment)
                  ELSE WithBlock([type |-> "text", segments |-> <<segment>>])
             ids == Encode(Str(segment.text))
         IN /\ conv' = c
            /\ Extend("text", c, ids, TextLabels(segment, is_assistant_turn, ids))
    /\ nread' = nread + 1
    /\ UNCHANGED <<include_reasoning, assistant_name, pc, result, wrVars, wkVars, uiVars>>

\* fault variant of ReasoningIncluded: the configuration is not looked at
ReasoningAlwaysIncluded(flag) == TRUE

\* exporter.py:91  `if self.config.include_reasoning:`
ReasoningIncluded(flag) == flag

\* exporter.py:90-94: a ReasoningContent with include_reasoning set
EmitThinkStart ==
    /\ pc = "blocks"
    /\ nread < MaxSize
    /\ ReasoningIncluded(include_reasoning)
    /\ LET c == WithBlock([type |-> "reason", segments |-> <<>>])
           ids == Encode(Str(think_start))
       IN /\ conv' = c
          /\ Extend("think_start", c, ids, ThinkLabels(ids))
    /\ pc' = "reason"
    /\ UNCHANGED <<include_reasoning, assistant_name, nread, result, wrVars, wkVars, uiVars>>

\* exporter.py:96-102
EmitReasoningSegment ==
    /\ pc = "reason"
    /\ nread < MaxSize
    /\ \E segment \in TextSegment :
         LET c == WithSegment(segment)
             ids == Encode(Str(segment.text))
         IN /\ conv' = c
            /\ Extend("reason", c, ids, ReasoningLabels(segment, ids))
    /\ nread' = nread + 1
    /\ UNCHANGED <<include_reasoning, assistant_name, pc, result, wrVars, wkVars, uiVars>>

\* exporter.py:104-106
EmitThinkEnd ==
    /\ pc = "reason"
    /\ Len(item.content[Len(item.content)].segments) > 0
    /\ LET ids == Encode(Str(think_end) \o <<"\n">>)
       IN Extend("think_end", conv, ids, ThinkLabels(ids))
    /\ pc' = "blocks"
    /\ UNCHANGED <<include_reasoning, assistant_name, conv, nread, result, wrVars, wkVars, uiVars>>

\* exporter.py:90-91: a ReasoningContent with include_reasoning unset emits nothing
\* (its segments are read one at a time; a segment that does not follow a
\* reasoning segment opens a new block)
SkipReasoning ==
    /\ pc = "blocks"
    /\ nread < MaxSize
    /\ ~ReasoningIncluded(include_reasoning)
    /\ \E segment \in TextSegment :
         conv' = IF LastBlockIs("reason")
                 THEN WithSegment(segment)
                 ELSE WithBlock([type |-> "reason", segments |-> <<segment>>])
    /\ nread' = nread + 1
    /\ UNCHANGED <<include_reasoning, assistant_name, all_input_ids, all_labels,
                   pc, log, result, wrVars, wkVars, uiVars>>

\* the lists of at most n elements of S
ListsUpTo(S, n) == UNION {[1..k -> S] : k \in 0..n}

\* exporter.py:108-112
EmitToolCalls ==
    /\ pc = "blocks"
    /\ nread < MaxSize
    /\ \E calls \in ListsUpTo(ToolCall, MaxSize - nread - 1) :
         LET content_part == [type |-> "tool_call", calls |-> calls]
             c == WithBlock(content_part)
             tcall_str == _serialize_tool_calls(content_part) \o <<"\n">>
             ids == Encode(tcall_str)
         IN /\ conv' = c
            /\ Extend("tool_call", c, ids, ToolCallLabels(ids))
            /\ nread' = nread + 1 + Len(calls)
    /\ UNCHANGED <<include_reasoning, assistant_name, pc, result, wrVars, wkVars, uiVars>>

\* exporter.py:114-118
EmitTools ==
    /\ pc = "blocks"
    /\ nread < MaxSize
    /\ \E definitions \in ListsUpTo(ToolDefinition, MaxSize - nread - 1) :
         LET content_part == [type |-> "tools", definitions |-> definitions]
             c == WithBlock(content_part)
             tools_str == _serialize_tools(content_part) \o <<"\n">>
             ids == Encode(tools_str)
         IN /\ conv' = c
            /\ Extend("tools", c, ids, ToolsLabels(ids))
            /\ nread' = nread + 1 + Len(definitions)
    /\ UNCHANGED <<include_reasoning, assistant_name, pc, result, wrVars, wkVars, uiVars>>

\* exporter.py:120-124
EmitToolResults ==
    /\ pc = "blocks"
    /\ nread < MaxSize
    /\ \E results \in ListsUpTo(ToolResult, MaxSize - nread - 1) :
         LET content_part == [type |-> "tool_response", results |-> results]
             c == WithBlock(content_part)
             tresults_str == _serialize_tool_results(content_part) \o <<"\n">>
             ids == Encode(tresults_str)
         IN /\ conv' = c
            /\ Extend("tool_response", c, ids, ToolResultsLabels(ids))
            /\ nread' = nread + 1 + Len(results)
    /\ UNCHANGED <<include_reasoning, assistant_name, pc, result, wrVars, wkVars, uiVars>>

\* exporter.py:126-131
EmitEOT ==
    /\ pc = "blocks"
    /\ LET ids == Encode(Str(eot))
       IN Extend("eot", conv, ids, EotLabels(is_assistant_turn, ids))
    /\ pc' = "items"
    /\ UNCHANGED <<include_reasoning, assistant_name, conv, nread, result, wrVars, wkVars, uiVars>>

\* exporter.py:63, 66-69: the loop is exhausted and the dict is returned
Return ==
    /\ pc = "items"
    /\ result' = [returned |-> TRUE, input_ids |-> all_input_ids, labels |-> all_labels]
    /\ pc' = "done"
    /\ UNCHANGED <<include_reasoning, assistant_name, conv, all_input_ids, all_labels,
                   log, nread, wrVars, wkVars, uiVars>>

(***************************************************************************)
(* TrainingExporter.process_conversation as a function of its arguments:   *)
(* the record the emissions above add up to.  The worker calls it once per *)
(* file.                                                                   *)
(***************************************************************************)
Record(ids, labels) == [input_ids |-> ids, labels |-> labels]
Cat(r, q) == Record(r.input_ids \o q.input_ids, r.labels \o q.labels)

\* exporter.py:82-88
RECURSIVE TextSegmentsRecord(_, _)
TextSegmentsRecord(segments, is_assistant) ==
    IF segments = <<>> THEN Record(<<>>, <<>>)
    ELSE LET ids == Encode(Str(Head(segments).text))
         IN Cat(Record(ids, TextLabels(Head(segments), is_assistant, ids)),
                TextSegmentsRecord(Tail(segments), is_assistant))

\* exporter.py:96-102
RECURSIVE ReasoningSegmentsRecord(_)
ReasoningSegmentsRecord(segments) ==
    IF segments = <<>> THEN Record(<<>>, <<>>)
    ELSE LET ids == Encode(Str(Head(segments).text))
         IN Cat(Record(ids, ReasoningLabels(Head(segments), ids)),
                ReasoningSegmentsRecord(Tail(segments)))

\* exporter.py:80-124: one content_part
BlockRecord(content_part, is_assistant, with_reasoning) ==
    CASE content_part.type = "text" ->
           TextSegmentsRecord(content_part.segments, is_assistant)
      [] content_part.type = "reason" ->
           IF ReasoningIncluded(with_reasoning)
           THEN LET s_ids == Encode(Str(think_start))
                    e_ids == Encode(Str(think_end) \o <<"\n">>)
                IN Cat(Cat(Record(s_ids, ThinkLabels(s_ids)),
                           ReasoningSegmentsRecord(content_part.segments)),
                       Record(e_ids, ThinkLabels(e_ids)))
           ELSE Record(<<>>, <<>>)
      [] content_part.type = "tool_call" ->
           LET ids == Encode(_serialize_tool_calls(content_part) \o <<"\n">>)
           IN Record(ids, ToolCallLabels(ids))
      [] content_part.type = "tools" ->
           LET ids == Encode(_serialize_tools(content_part) \o <<"\n">>)
           IN Record(ids, ToolsLabels(ids))
      [] content_part.type = "tool_response" ->
           LET ids == Encode(_serialize_tool_results(content_part) \o <<"\n">>)
           IN Record(ids, ToolResultsLabels(ids))
      \* no branch of the if/elif chain matches: nothing is emitted
      [] OTHER -> Record(<<>>, <<>>)

RECURSIVE BlocksRecord(_, _, _)
BlocksRecord(content, is_assistant, with_reasoning) ==
    IF content = <<>> THEN Record(<<>>, <<>>)
    ELSE Cat(BlockRecord(Head(content), is_assistant, with_reasoning),
             BlocksRecord(Tail(content), is_assistant, with_reasoning))

\* exporter.py:71-131
_process_item(it, with_reasoning, assistant) ==
    LET is_assistant == it.role = assistant
        h_ids == Encode(Str(header_start) \o Str(it.role) \o Str(header_end) \o <<"\n">>)
        e_ids == Encode(Str(eot))
    IN Cat(Cat(Record(h_ids, HeaderLabels(h_ids)),
               BlocksRecord(it.content, is_assistant, with_reasoning)),
           Record(e_ids, EotLabels(is_assistant, e_ids)))

RECURSIVE ItemsRecord(_, _, _)
ItemsRecord(items, with_reasoning, assistant) ==
    IF items = <<>> THEN Record(<<>>, <<>>)
    ELSE Cat(_process_item(Head(items), with_reasoning, assistant),
             ItemsRecord(Tail(items), with_reasoning, assistant))

\* exporter.py:55-69
process_conversation(conversation, with_reasoning, assistant) ==
    LET b_ids == Encode(Str(bos))
    IN Cat(Record(b_ids, BosLabels(b_ids)),
           ItemsRecord(conversation, with_reasoning, assistant))

(***************************************************************************)
(* H5ReaderService.get_processed_conversation (services/                   *)
(* h5_reader_service.py) on one stored row: the row is cut where the label *)
(* changes between ignore and not ignore, and every span is decoded.       *)
(***************************************************************************)
\* h5_reader_service.py:81, 84  `labels[i] != -100`
is_learnable(label) == label # cross_entropy_ignore_index

\* h5_reader_service.py:83-95: the loop at index i (0-based) with the span
\* begun at start_idx, and the final span
RECURSIVE SpansFrom(_, _, _, _)
SpansFrom(input_ids, labels, start_idx, i) ==
    LET current_is_learnable == is_learnable(labels[start_idx + 1]) IN
    IF i >= Len(labels)
    THEN << [text |-> Decode(SubSeq(input_ids, start_idx + 1, Len(input_ids))),
             learnable |-> current_is_learnable] >>
    ELSE IF is_learnable(labels[i + 1]) # current_is_learnable
         THEN << [text |-> Decode(SubSeq(input_ids, start_idx + 1, i)),
                  learnable |-> current_is_learnable] >>
              \o SpansFrom(input_ids, labels, i, i + 1)
         ELSE SpansFrom(input_ids, labels, start_idx, i + 1)

\* h5_reader_service.py:67-97
get_processed_conversation(input_ids, labels) ==
    IF Len(input_ids) = 0 THEN <<>>
    ELSE SpansFrom(input_ids, labels, 0, 1)

(***************************************************************************)
(* HDF5Writer (export/hdf5_writer.py).                                     *)
(*                                                                         *)
(* The writer is used as in export_worker.py:53, `with HDF5Writer(path) as *)
(* writer:`: __enter__ is called once on a fresh object.  The h5py calls   *)
(* themselves succeed here; a dataset is the sequence of its rows.         *)
(***************************************************************************)
None == [none |-> TRUE]
\* the handle h5py.File(self.filepath, "w") returns
OpenFile == [mode |-> "w"]

\* an np.ndarray: its number of dimensions and the elements along its first axis
Array1(elems) == [ndim |-> 1, elems |-> elems]
Array2(elems) == [ndim |-> 2, elems |-> elems]

\* the dicts handed to append; data.get(key) is None for a missing key
InputIdArrays ==
    {Array1(<<>>), Array1(<<5>>), Array1(<<1, 2, 3>>), Array2(<<>>), Array2(<<1, 2, 3>>)}
LabelArrays ==
    {Array1(<<>>), Array1(<<5>>), Array1(<<cross_entropy_ignore_index>>), Array1(<<1, 2>>),
     Array1(<<1, 2, 3>>), Array1(<<cross_entropy_ignore_index, cross_entropy_ignore_index, 3>>)}
DataDicts ==
    [input_ids : {None} \cup InputIdArrays, labels : {None} \cup LabelArrays]

\* dataset.resize((n,)): new rows of a vlen dataset are empty
Resize(ds, n) ==
    IF n <= Len(ds)
    THEN SubSeq(ds, 1, n)
    ELSE ds \o Repeat(<<>>, n - Len(ds))

\* hdf5_writer.py:60-65, for one dataset: resize to new_size, write row self.size
StoreRow(ds, sz, row) ==
    [Resize(ds, sz + 1) EXCEPT ![sz + 1] = row]

\* fault variant of SizeAfterStore: self.size is left as it was
SizeNotUpdated(new_size) == new_size - 1

\* hdf5_writer.py:67  self.size = new_size
SizeAfterStore(new_size) == new_size

\* fault variant of AppendOutcome: no length check
AppendOutcomeNoShapeCheck(f, data) ==
    IF f = None THEN "IOError"
    ELSE IF data.input_ids = None \/ data.labels = None THEN "ValueError:missing"
    ELSE IF data.input_ids.ndim # 1 THEN "ValueError:ndim"
    ELSE IF Len(data.input_ids.elems) = 0 THEN "return"
    ELSE "stored"

\* fault variant of AppendOutcome: the empty check comes first
AppendOutcomeEmptyFirst(f, data) ==
    IF f = None THEN "IOError"
    ELSE IF data.input_ids = None \/ data.labels = None THEN "ValueError:missing"
    ELSE IF Len(data.input_ids.elems) = 0 THEN "return"
    ELSE IF Len(data.input_ids.elems) # Len(data.labels.elems) THEN "ValueError:shape"
    ELSE IF data.input_ids.ndim # 1 THEN "ValueError:ndim"
    ELSE "stored"

\* fault variant of AppendOutcome: no empty check
AppendOutcomeNoEmptyCheck(f, data) ==
    IF f = None THEN "IOError"
    ELSE IF data.input_ids = None \/ data.labels = None THEN "ValueError:missing"
    ELSE IF Len(data.input_ids.elems) # Len(data.labels.elems) THEN "ValueError:shape"
    ELSE IF data.input_ids.ndim # 1 THEN "ValueError:ndim"
    ELSE "stored"

\* hdf5_writer.py:44-58: the checks of append, in order
\* fault: append does not look at the file handle
AppendOutcomeNoFileCheck(f, data) ==
    IF data.input_ids = None \/ data.labels = None THEN "ValueError:missing"
    ELSE IF Len(data.input_ids.elems) # Len(data.labels.elems) THEN "ValueError:shape"
    ELSE IF data.input_ids.ndim # 1 THEN "ValueError:ndim"
    ELSE IF Len(data.input_ids.elems) = 0 THEN "return"
    ELSE "stored"

AppendOutcome(f, data) ==
    IF f = None THEN "IOError"
    ELSE IF data.input_ids = None \/ data.labels = None THEN "ValueError:missing"
    ELSE IF Len(data.input_ids.elems) # Len(data.labels.elems) THEN "ValueError:shape"
    ELSE IF data.input_ids.ndim # 1 THEN "ValueError:ndim"
    ELSE IF Len(data.input_ids.elems) = 0 THEN "return"
    ELSE "stored"

\* hdf5_writer.py:12-16  HDF5Writer.__init__
WriterInit ==
    /\ file = None
    /\ size = 0
    /\ ds_input_ids = <<>>
    /\ ds_labels = <<>>
    /\ last_call = [op |-> "__init__", outcome |-> "return", prev |-> "none"]
    /\ stored = 0

\* hdf5_writer.py:18-38  HDF5Writer.__enter__
__enter__ ==
    /\ last_call.op = "__init__"
    /\ file' = OpenFile
    /\ ds_input_ids' = <<>>
    /\ ds_labels' = <<>>
    /\ last_call' = [op |-> "__enter__", outcome |-> "return", prev |-> last_call.outcome]
    /\ UNCHANGED <<size, stored, encVars, wkVars, uiVars>>

\* hdf5_writer.py:43-67  HDF5Writer.append
append ==
    \E data \in DataDicts :
      LET outcome == AppendOutcome(file, data) IN
      /\ outcome = "stored" => size < MaxRows
      /\ last_call' = [op |-> "append", data |-> data, outcome |-> outcome,
                       prev |-> last_call.outcome]
      /\ IF outcome = "stored"
         THEN /\ ds_input_ids' = StoreRow(ds_input_ids, size, data.input_ids.elems)
              /\ ds_labels' = StoreRow(ds_labels, size, data.labels.elems)
              /\ size' = SizeAfterStore(size + 1)
              /\ stored' = stored + 1
         ELSE UNCHANGED <<ds_input_ids, ds_labels, size, stored>>
      /\ UNCHANGED <<file, encVars, wkVars, uiVars>>

\* hdf5_writer.py:69-76  HDF5Writer.close / __exit__
close ==
    /\ file' = None
    /\ last_call' = [op |-> "close",
                     outcome |-> IF file # None THEN "closed" ELSE "noop",
                     prev |-> last_call.outcome]
    /\ UNCHANGED <<size, ds_input_ids, ds_labels, stored, encVars, wkVars, uiVars>>

\* the exporter before process_conversation is called
(***************************************************************************)
(* ExportWorker (workers/export_worker.py) and the two slots of            *)
(* ExportDialog that receive its terminal signals.                         *)
(*                                                                         *)
(* A path is the rank of a file name in lexicographic order.  A file is    *)
(* either text that json.load rejects or a JSON value; the worker thread   *)
(* takes one step per statement group of run, and stop() is a step of the  *)
(* GUI thread that may fall between any two of them.                       *)
(***************************************************************************)
MaxFiles == 2
Paths == 1..MaxFiles

BadText == "<unencodable>"
KnownTypes == {"text", "reason", "tools", "tool_call", "tool_response"}

InvalidJson == [json |-> "invalid"]
JsonFile(data) == [json |-> "valid", data |-> data]
TextItem(role, text, learnable) ==
    [role |-> role,
     content |-> << [type |-> "text",
                     segments |-> << [text |-> text, learnable |-> learnable] >>] >>]
ConvChat == << TextItem("user", "Hi", TRUE), TextItem("assistant", "Hello", TRUE) >>
ConvSystem == << TextItem("system", "Hi", FALSE), TextItem("assistant", "Hello", TRUE) >>
ConvEmpty == << >>
ConvBadText == << TextItem("user", BadText, TRUE) >>
ConvUnknownBlock == << [role |-> "user", content |-> << [type |-> "image"] >>] >>
FileContents ==
    {InvalidJson, JsonFile(ConvUnknownBlock), JsonFile(ConvChat), JsonFile(ConvSystem),
     JsonFile(ConvEmpty), JsonFile(ConvBadText)}
SysPromptFiles == {None, [text |-> "Hi", padding |-> "\n"]}
\* templates with the replacement field of export_worker.py:103: one that
\* str.format fills in, and one with a positional field besides, for which
\* str.format(datetime=...) raises IndexError
DatetimePrompt == [text |-> "{datetime}", padding |-> "\n"]
BadFormatPrompt == [text |-> "{datetime}{0}", padding |-> ""]
TemplateFiles == {DatetimePrompt, BadFormatPrompt}

\* export_worker.py:42: sorted(...)
RECURSIVE Insert(_, _)
Insert(x, s) ==
    IF s = <<>> THEN <<x>>
    ELSE IF x <= Head(s) THEN <<x>> \o s
    ELSE <<Head(s)>> \o Insert(x, Tail(s))
\* fault: the listing is processed in the order rglob yields it
Unsorted(s) == s
RECURSIVE sorted(_)
sorted(s) == IF s = <<>> THEN <<>> ELSE Insert(Head(s), sorted(Tail(s)))
\* the orders in which rglob can yield the files of a set
Listings(S) ==
    {s \in [1..Cardinality(S) -> S] : \A a, b \in 1..Cardinality(S) : a # b => s[a] # s[b]}

\* fault variant of Conforms: the type tag of a block is not validated
ConformsAnyType(data) == TRUE

\* export_worker.py:61-69: json.load and TypeAdapter(ConversationData).validate_python
Conforms(data) ==
    \A a \in 1..Len(data) : \A b \in 1..Len(data[a].content) :
        data[a].content[b].type \in KnownTypes
ParseFails(f) == f.json = "invalid" \/ ~Conforms(f.data)

\* export_worker.py:92-113
strip(f) == f.text
\* export_worker.py:103  `"{datetime}" in prompt_template`
HasDatetimeField(prompt_template) ==
    prompt_template \in {"{datetime}", "{datetime}{0}"}
\* export_worker.py:104: str.format raises on a field it has no argument for
FormatRaises(prompt_template) == prompt_template = "{datetime}{0}"
strftime(t) == TimeTexts[t + 1]
\* export_worker.py:102-104: formatted_prompt, when nothing raises
formatted_prompt(prompt_template, t) ==
    IF HasDatetimeField(prompt_template) THEN strftime(t) ELSE prompt_template
\* the method, called in minute t: the except of lines 112-113 only logs
_add_system_prompt(conversation, prompt_file, t) ==
    IF prompt_file = None THEN conversation
    ELSE IF FormatRaises(strip(prompt_file)) THEN conversation
    ELSE << TextItem("system", formatted_prompt(strip(prompt_file), t), FALSE) >>
         \o conversation
\* export_worker.py:71
NeedsSystemPrompt(conversation) ==
    conversation = <<>> \/ conversation[1].role # "system"
\* export_worker.py:71-72
WithSystemPrompt(conversation, prompt_file, t) ==
    IF NeedsSystemPrompt(conversation)
    THEN _add_system_prompt(conversation, prompt_file, t)
    ELSE conversation
\* the call reads the clock (export_worker.py:104)
ReadsClock(conversation, prompt_file) ==
    /\ NeedsSystemPrompt(conversation)
    /\ prompt_file # None
    /\ HasDatetimeField(strip(prompt_file))
\* config.py:7-18: the defaults of SpecialTokensConfig
DefaultTokens ==
    [bos |-> bos, eot |-> eot, header_start |-> header_start,
     header_end |-> header_end, think_start |-> think_start,
     think_end |-> think_end, tools_start |-> tools_start, tools_end |-> tools_end,
     tool_call_start |-> tool_call_start, tool_call_end |-> tool_call_end,
     tool_response_start |-> tool_response_start,
     tool_response_end |-> tool_response_end]
\* the line edit of think_start left empty (export_dialog.py:238-239)
EmptyThinkStart == [DefaultTokens EXCEPT !.think_start = ""]
NoPrevious == [run |-> FALSE]

\* tokenizer.encode raising on a text (exporter.py:83, 97)
EncodeRaises(conversation) ==
    \E a \in 1..Len(conversation) : \E b \in 1..Len(conversation[a].content) :
        /\ conversation[a].content[b].type \in {"text", "reason"}
        /\ \E c \in 1..Len(conversation[a].content[b].segments) :
             conversation[a].content[b].segments[c].text = BadText

\* a defective encoder: the label stream lacks its last element
Defective(r) ==
    Record(r.input_ids,
           IF r.labels = <<>> THEN <<>> ELSE SubSeq(r.labels, 1, Len(r.labels) - 1))
\* export_worker.py:74
Tokenized(conversation, defect) ==
    LET r == process_conversation(conversation, include_reasoning, assistant_name)
    IN IF defect THEN Defective(r) ELSE r

\* the signals of ExportWorker (export_worker.py:19-22)
StatusUpdate(text) == [sig |-> "status_update", text |-> text]
Progress(current, total) == [sig |-> "progress", current |-> current, total |-> total]
ExportCompleted == [sig |-> "export_completed"]
Error(message) == [sig |-> "error", message |-> message]

NoExc == "none"
NoBox == [kind |-> "none"]
NoStop == [pc |-> "none", k |-> 0]
NoData == Record(<<>>, <<>>)

\* the h5py calls of __enter__ that can raise (hdf5_writer.py:20, 23-36)
EnterFaults == {"none", "File", "create_dataset"}
\* the handle self.file holds when __enter__ returns or raises
FileAfterEnter(fault) == IF fault = "File" THEN None ELSE OpenFile

\* the h5py calls of append that can raise (hdf5_writer.py:61-65)
AppendFaults ==
    {"none", "resize_input_ids", "resize_labels", "write_input_ids", "write_labels"}
\* the dataset "input_ids" after an append that got as far as the fault
IdsAfterAppend(fault, ds, sz, row) ==
    CASE fault = "resize_input_ids" -> ds
      [] fault \in {"resize_labels", "write_input_ids"} -> Resize(ds, sz + 1)
      [] OTHER -> StoreRow(ds, sz, row)
\* the dataset "labels" after an append that got as far as the fault
LabelsAfterAppend(fault, ds, sz, row) ==
    CASE fault \in {"resize_input_ids", "resize_labels"} -> ds
      [] fault \in {"write_input_ids", "write_labels"} -> Resize(ds, sz + 1)
      [] OTHER -> StoreRow(ds, sz, row)

Emit(signals) == events' = events \o signals

\* fault: run goes on after reporting that the tokenizer cannot be loaded
FallsThrough == "scan"
\* export_worker.py:36: the return after the error signal
AfterTokenizerError == "done"

\* fault: a file that cannot be parsed ends the loop
LeavesLoop == "exit"
\* export_worker.py:69: continue
AfterParseError == "loop"

\* fault: a failed h5py call of append is passed over like a skipped file
ContinuesAfterStorageError == "loop"
\* export_worker.py:77: the exception of append leaves the loop and the with
\* block of line 53
AfterStorageError == "exit"

\* fault: stop() takes the thread out of the file it is working on
Interrupted(p) == IF p \in {"parse", "encode", "append"} THEN "exit" ELSE p
\* export_worker.py:115-117: stop() only clears the flag; the thread stays where it is
AfterStop(p) == p
Total == Len(files_to_process)
\* the call record the writer keeps, for a call made by the worker
Call(op, outcome) == [op |-> op, outcome |-> outcome, prev |-> last_call.outcome]

WorkerStartWith(defects, paths, contents, prompts, tokenizers, configs) ==
    /\ \E S \in SUBSET paths : corpus \in [S -> contents]
    /\ sysprompt \in prompts
    /\ tokenizer_file \in tokenizers
    /\ encoder_defect \in defects
    /\ special_tokens \in configs
    /\ now = 0
    /\ previous = NoPrevious
    /\ wpc = "start"
    /\ _is_running = TRUE
    /\ files_to_process = <<>>
    /\ file_index = 0
    /\ conversation_data = <<>>
    /\ tokenized_data = NoData
    /\ exc = NoExc
    /\ events = <<>>
    /\ box = NoBox
    /\ outcomes = <<>>
    /\ loop_end = "none"
    /\ stop_at = NoStop
WorkerStart(defects) ==
    WorkerStartWith(defects, Paths, FileContents, SysPromptFiles,
                    {"ok", "unloadable"}, {DefaultTokens})

\* the worker has not been created
WorkerIdle ==
    /\ corpus = << >>
    /\ sysprompt = None
    /\ tokenizer_file = "ok"
    /\ encoder_defect = FALSE
    /\ special_tokens = DefaultTokens
    /\ now = 0
    /\ previous = NoPrevious
    /\ wpc = "idle"
    /\ _is_running = TRUE
    /\ files_to_process = <<>>
    /\ file_index = 0
    /\ conversation_data = <<>>
    /\ tokenized_data = NoData
    /\ exc = NoExc
    /\ events = <<>>
    /\ box = NoBox
    /\ outcomes = <<>>
    /\ loop_end = "none"
    /\ stop_at = NoStop

\* export_worker.py:31-38
LoadTokenizer ==
    /\ wpc = "start"
    /\ IF tokenizer_file = "ok"
       THEN /\ Emit(<<StatusUpdate("Initializing exporter...")>>)
            /\ wpc' = "scan"
       ELSE /\ Emit(<<StatusUpdate("Initializing exporter..."),
                      Error("Failed to load tokenizer")>>)
            /\ wpc' = AfterTokenizerError
    /\ UNCHANGED <<uiVars, corpus, sysprompt, tokenizer_file, encoder_defect, special_tokens,
                   now, previous, _is_running,
                   files_to_process, file_index, conversation_data, tokenized_data,
                   exc, box, outcomes, loop_end, stop_at, encVars, wrVars>>

\* export_worker.py:40-50
Scan ==
    /\ wpc = "scan"
    /\ \E listing \in Listings(DOMAIN corpus) :
         LET files == sorted(listing)
         IN /\ files_to_process' = files
            /\ IF Len(files) = 0
               THEN /\ Emit(<<StatusUpdate("Scanning for conversation files..."),
                              Error("No .json files found in the specified directory.")>>)
                    /\ wpc' = "done"
               ELSE /\ Emit(<<StatusUpdate("Scanning for conversation files..."),
                              Progress(0, Len(files))>>)
                    /\ wpc' = "open"
    /\ UNCHANGED <<uiVars, corpus, sysprompt, tokenizer_file, encoder_defect, special_tokens,
                   now, previous, _is_running,
                   file_index, conversation_data, tokenized_data,
                   exc, box, outcomes, loop_end, stop_at, encVars, wrVars>>

\* export_worker.py:52-53 with hdf5_writer.py:18-41
Open ==
    /\ wpc = "open"
    /\ Emit(<<StatusUpdate("Preparing to write...")>>)
    /\ \E fault \in EnterFaults :
         /\ file' = FileAfterEnter(fault)
         /\ IF fault = "none"
            THEN /\ last_call' = Call("__enter__", "return")
                 /\ wpc' = "loop"
                 /\ exc' = exc
            ELSE /\ last_call' = Call("__enter__", "raise")
                 /\ wpc' = "except"
                 /\ exc' = "open"
    /\ ds_input_ids' = <<>>
    /\ ds_labels' = <<>>
    /\ UNCHANGED <<uiVars, corpus, sysprompt, tokenizer_file, encoder_defect, special_tokens,
                   now, previous, _is_running,
                   files_to_process, file_index, conversation_data, tokenized_data,
                   box, outcomes, loop_end, stop_at, size, stored, encVars>>

\* export_worker.py:54-59
LoopTop ==
    /\ wpc = "loop"
    /\ IF file_index = Total
       THEN /\ loop_end' = "exhausted"
            /\ wpc' = "exit"
            /\ UNCHANGED <<file_index, events>>
       ELSE IF ~_is_running
       THEN /\ loop_end' = "break"
            /\ wpc' = "exit"
            /\ UNCHANGED <<file_index, events>>
       ELSE /\ Emit(<<Progress(file_index + 1, Total),
                      StatusUpdate("Processing...")>>)
            /\ file_index' = file_index + 1
            /\ wpc' = "parse"
            /\ UNCHANGED loop_end
    /\ UNCHANGED <<uiVars, corpus, sysprompt, tokenizer_file, encoder_defect, special_tokens,
                   now, previous, _is_running,
                   files_to_process, conversation_data, tokenized_data,
                   exc, box, outcomes, stop_at, encVars, wrVars>>

\* export_worker.py:61-69
Parse ==
    /\ wpc = "parse"
    /\ LET f == corpus[files_to_process[file_index]]
       IN IF ParseFails(f)
          THEN /\ outcomes' = Append(outcomes, "skipped")
               /\ wpc' = AfterParseError
               /\ UNCHANGED conversation_data
          ELSE /\ conversation_data' = f.data
               /\ wpc' = "encode"
               /\ UNCHANGED outcomes
    /\ UNCHANGED <<uiVars, corpus, sysprompt, tokenizer_file, encoder_defect, special_tokens,
                   now, previous, _is_running,
                   files_to_process, file_index, tokenized_data,
                   exc, events, box, loop_end, stop_at, encVars, wrVars>>

\* export_worker.py:71-74
EncodeFile ==
    /\ wpc = "encode"
    /\ \E t \in IF ReadsClock(conversation_data, sysprompt)
                THEN now..MaxClock ELSE {now} :
         LET conversation == WithSystemPrompt(conversation_data, sysprompt, t)
         IN /\ now' = t
            /\ conversation_data' = conversation
            /\ IF EncodeRaises(conversation)
               THEN /\ exc' = "encode"
                    /\ outcomes' = Append(outcomes, "encode_error")
                    /\ wpc' = "exit"
                    /\ UNCHANGED tokenized_data
               ELSE /\ tokenized_data' = Tokenized(conversation, encoder_defect)
                    /\ wpc' = "append"
                    /\ UNCHANGED <<exc, outcomes>>
    /\ UNCHANGED <<uiVars, corpus, sysprompt, tokenizer_file, encoder_defect, special_tokens,
                   previous, _is_running,
                   files_to_process, file_index,
                   events, box, loop_end, stop_at, encVars, wrVars>>

\* export_worker.py:76-77 with hdf5_writer.py:43-67
AppendRecord ==
    /\ wpc = "append"
    /\ LET data == [input_ids |-> Array1(tokenized_data.input_ids),
                    labels |-> Array1(tokenized_data.labels)]
           outcome == AppendOutcome(file, data)
       IN IF Len(tokenized_data.input_ids) = 0
          THEN /\ outcomes' = Append(outcomes, "empty")
               /\ wpc' = "loop"
               /\ UNCHANGED <<exc, wrVars>>
          ELSE IF outcome = "stored"
          THEN \E fault \in AppendFaults :
                 /\ ds_input_ids' =
                      IdsAfterAppend(fault, ds_input_ids, size, data.input_ids.elems)
                 /\ ds_labels' =
                      LabelsAfterAppend(fault, ds_labels, size, data.labels.elems)
                 /\ IF fault = "none"
                    THEN /\ size' = SizeAfterStore(size + 1)
                         /\ stored' = stored + 1
                         /\ last_call' = Call("append", "stored")
                         /\ outcomes' = Append(outcomes, "row")
                         /\ wpc' = "loop"
                         /\ exc' = exc
                    ELSE /\ last_call' = Call("append", "raise")
                         /\ outcomes' = Append(outcomes, "append_error")
                         /\ wpc' = AfterStorageError
                         /\ exc' = "storage"
                         /\ UNCHANGED <<size, stored>>
                 /\ UNCHANGED file
          ELSE /\ last_call' = Call("append", outcome)
               /\ outcomes' = Append(outcomes, "append_error")
               /\ wpc' = "exit"
               /\ exc' = outcome
               /\ UNCHANGED <<file, size, ds_input_ids, ds_labels, stored>>
    /\ UNCHANGED <<uiVars, corpus, sysprompt, tokenizer_file, encoder_defect, special_tokens,
                   now, previous, _is_running,
                   files_to_process, file_index, conversation_data, tokenized_data,
                   events, box, loop_end, stop_at, encVars>>

\* leaving the with block of export_worker.py:53: hdf5_writer.py:75-76
ExitScope ==
    /\ wpc = "exit"
    /\ file' = None
    /\ last_call' = Call("close", IF file # None THEN "closed" ELSE "noop")
    /\ wpc' = IF exc = NoExc THEN "finish" ELSE "except"
    /\ UNCHANGED <<uiVars, corpus, sysprompt, tokenizer_file, encoder_defect, special_tokens,
                   now, previous, _is_running,
                   files_to_process, file_index, conversation_data, tokenized_data,
                   exc, events, box, outcomes, loop_end, stop_at,
                   size, ds_input_ids, ds_labels, stored, encVars>>

\* export_worker.py:79-86
Finish ==
    /\ wpc = "finish"
    /\ Emit(<<StatusUpdate(IF _is_running THEN "Export complete."
                           ELSE "Export cancelled by user."),
              ExportCompleted>>)
    /\ wpc' = "done"
    /\ UNCHANGED <<uiVars, corpus, sysprompt, tokenizer_file, encoder_defect, special_tokens,
                   now, previous, _is_running,
                   files_to_process, file_index, conversation_data, tokenized_data,
                   exc, box, outcomes, loop_end, stop_at, encVars, wrVars>>

\* export_worker.py:88-90
Except ==
    /\ wpc = "except"
    /\ Emit(<<Error(exc)>>)
    /\ wpc' = "done"
    /\ UNCHANGED <<uiVars, corpus, sysprompt, tokenizer_file, encoder_defect, special_tokens,
                   now, previous, _is_running,
                   files_to_process, file_index, conversation_data, tokenized_data,
                   exc, box, outcomes, loop_end, stop_at, encVars, wrVars>>

\* export_worker.py:115-117, called by export_dialog.py:228-233 while the
\* thread runs
stop ==
    /\ wpc \notin {"idle", "done"}
    /\ _is_running
    /\ _is_running' = FALSE
    /\ stop_at' = [pc |-> wpc, k |-> file_index]
    /\ wpc' = AfterStop(wpc)
    /\ UNCHANGED <<uiVars, corpus, sysprompt, tokenizer_file, encoder_defect, special_tokens,
                   now, previous,
                   files_to_process, file_index, conversation_data, tokenized_data,
                   exc, events, box, outcomes, loop_end, encVars, wrVars>>

\* export_dialog.py:264-268
_on_export_completed ==
    /\ wpc = "done"
    /\ box = NoBox
    /\ events[Len(events)].sig = "export_completed"
    /\ box' = [kind |-> "information", title |-> "Success",
               text |-> "Export process completed successfully."]
    /\ UNCHANGED <<uiVars, corpus, sysprompt, tokenizer_file, encoder_defect, special_tokens,
                   now, previous, wpc, _is_running,
                   files_to_process, file_index, conversation_data, tokenized_data,
                   exc, events, outcomes, loop_end, stop_at, encVars, wrVars>>

\* export_dialog.py:270-274
_on_error ==
    /\ wpc = "done"
    /\ box = NoBox
    /\ events[Len(events)].sig = "error"
    /\ box' = [kind |-> "critical", title |-> "Export Error",
               text |-> events[Len(events)].message]
    /\ UNCHANGED <<uiVars, corpus, sysprompt, tokenizer_file, encoder_defect, special_tokens,
                   now, previous, wpc, _is_running,
                   files_to_process, file_index, conversation_data, tokenized_data,
                   exc, events, outcomes, loop_end, stop_at, encVars, wrVars>>

\* export_dialog.py:235-258: the start button pressed again after a run has
\* ended and the dialog has answered it. A new worker and a new writer are
\* made for the same directory, tokenizer and settings; the output file of
\* the earlier run stays as it is until h5py.File truncates it. The stopping
\* branch of the method (lines 229-233) is the action stop.
_start_or_stop_export ==
    /\ wpc = "done"
    /\ box # NoBox
    /\ previous = NoPrevious
    /\ previous' = [run |-> TRUE,
                    complete |-> (loop_end = "exhausted" /\ exc = NoExc),
                    input_ids |-> ds_input_ids, labels |-> ds_labels]
    /\ wpc' = "start"
    /\ _is_running' = TRUE
    /\ files_to_process' = <<>>
    /\ file_index' = 0
    /\ conversation_data' = <<>>
    /\ tokenized_data' = NoData
    /\ exc' = NoExc
    /\ events' = <<>>
    /\ box' = NoBox
    /\ outcomes' = <<>>
    /\ loop_end' = "none"
    /\ stop_at' = NoStop
    /\ file' = None
    /\ size' = 0
    /\ last_call' = [op |-> "__init__", outcome |-> "return", prev |-> "none"]
    /\ stored' = 0
    /\ UNCHANGED <<uiVars, corpus, sysprompt, tokenizer_file, encoder_defect, special_tokens,
                   now, ds_input_ids, ds_labels, encVars>>

(***************************************************************************)
(* Conversation (core/conversation.py), the move commands                   *)
(* (core/commands/item_commands.py, content_commands.py) and the            *)
(* UndoManager (core/commands/undo_manager.py).                             *)
(*                                                                         *)
(* A Python list is a sequence; index i of the source is position i + 1.   *)
(* Items and content blocks are compared by value, as pydantic models are. *)
(***************************************************************************)
NoCommand == [kind |-> "none"]

\* the editor with no conversation loaded and no command made
EditorIdle ==
    /\ conv_data = <<>>
    /\ command = NoCommand
    /\ made = <<>>
    /\ constructed = <<>>
    /\ executed = <<>>
    /\ undo_stack = <<>>
    /\ redo_stack = <<>>
    /\ clean_index = 0
    /\ saved = <<>>

\* items of a conversation
MaxItems == 3
\* content blocks of one item
MaxBlocks == 2
\* calls made on one command, and commands one UndoManager holds
MaxCalls == 3

\* core/models.py:105-107  Item
Item(role, content) == [role |-> role, content |-> content]
Blocks == {"x", "y"}

\* list.pop(i) for a valid i: the list that is left
pop(lst, i) == SubSeq(lst, 1, i) \o SubSeq(lst, i + 2, Len(lst))
\* list.insert(i, x): a negative i counts from the end, and the position is
\* clamped to the list
insert(lst, i, x) ==
    LET j == IF i < 0 THEN i + Len(lst) ELSE i
        k == IF j < 0 THEN 0 ELSE IF j > Len(lst) THEN Len(lst) ELSE j
    IN SubSeq(lst, 1, k) \o <<x>> \o SubSeq(lst, k + 1, Len(lst))
\* list.index(x): the index of the first element equal to x
index(lst, x) ==
    CHOOSE i \in 0..(Len(lst) - 1) :
      /\ lst[i + 1] = x
      /\ \A j \in 0..(i - 1) : lst[j + 1] # x

\* conversation.py:88-102  Conversation.move_item, as the list it leaves
move_item(lst, source_index, target_index) ==
    IF ~(0 <= source_index /\ source_index < Len(lst)
         /\ 0 <= target_index /\ target_index <= Len(lst))
    THEN lst
    ELSE IF source_index = target_index THEN lst
    ELSE insert(pop(lst, source_index),
                IF source_index < target_index THEN target_index - 1
                ELSE target_index,
                lst[source_index + 1])

\* conversation.py:104-123  Conversation.move_content, as the list it leaves
move_content(lst, source_item_idx, source_content_idx, target_item_idx, target_content_idx) ==
    IF ~(0 <= source_item_idx /\ source_item_idx < Len(lst)
         /\ 0 <= target_item_idx /\ target_item_idx < Len(lst))
    THEN lst
    ELSE IF ~(0 <= source_content_idx
              /\ source_content_idx < Len(lst[source_item_idx + 1].content)
              /\ 0 <= target_content_idx
              /\ target_content_idx <= Len(lst[target_item_idx + 1].content))
    THEN lst
    ELSE LET content_to_move ==
               lst[source_item_idx + 1].content[source_content_idx + 1]
             popped ==
               [lst EXCEPT ![source_item_idx + 1].content =
                             pop(@, source_content_idx)]
             target ==
               IF source_item_idx = target_item_idx
                  /\ source_content_idx < target_content_idx
               THEN target_content_idx - 1
               ELSE target_content_idx
         IN [popped EXCEPT ![target_item_idx + 1].content =
                             insert(@, target, content_to_move)]

\* item_commands.py:39-43  MoveItemCommand.__init__
MoveItemCommand(source_index, target_index) ==
    [kind |-> "move_item", source_index |-> source_index,
     target_index |-> target_index, final_target_index |-> -1]

\* content_commands.py:76-82  MoveContentBlockCommand.__init__
MoveContentBlockCommand(source_item_idx, source_content_idx, target_item_idx, target_content_idx) ==
    [kind |-> "move_content",
     source_item_idx |-> source_item_idx,
     source_content_idx |-> source_content_idx,
     target_item_idx |-> target_item_idx,
     target_content_idx |-> target_content_idx,
     final_target_content_idx |-> -1]

\* item_commands.py:45-51, as the pair of the command and the list it leaves
MoveItemCommand_execute(c, lst) ==
    LET item_to_move == lst[c.source_index + 1]
        temp_data ==
          insert(pop(lst, c.source_index),
                 IF c.source_index > c.target_index THEN c.target_index
                 ELSE c.target_index - 1,
                 item_to_move)
    IN [command |-> [c EXCEPT !.final_target_index =
                                index(temp_data, item_to_move)],
        data |-> move_item(lst, c.source_index, c.target_index)]

\* item_commands.py:53-55
MoveItemCommand_undo(c, lst) ==
    IF c.final_target_index # -1
    THEN move_item(lst, c.final_target_index, c.source_index)
    ELSE lst

\* content_commands.py:84-90
MoveContentBlockCommand_execute(c, lst) ==
    [command |->
       [c EXCEPT !.final_target_content_idx =
                   IF c.source_item_idx = c.target_item_idx
                      /\ c.source_content_idx < c.target_content_idx
                   THEN c.target_content_idx - 1
                   ELSE c.target_content_idx],
     data |-> move_content(lst, c.source_item_idx, c.source_content_idx,
                           c.target_item_idx, c.target_content_idx)]

\* content_commands.py:92-94
MoveContentBlockCommand_undo(c, lst) ==
    IF c.final_target_content_idx # -1
    THEN move_content(lst, c.target_item_idx, c.final_target_content_idx,
                      c.source_item_idx, c.source_content_idx)
    ELSE lst

\* item_commands.py:10-14  InsertItemCommand.__init__
InsertItemCommand(idx, role) ==
    [kind |-> "insert_item", index |-> idx, role |-> role]
\* item_commands.py:23-27  RemoveItemCommand.__init__
RemoveItemCommand(idx) ==
    [kind |-> "remove_item", index |-> idx, removed_item |-> None]

\* base_command.py:12-14  execute of each command, as the pair of the command
\* and the list it leaves
Execute(c, lst) ==
    CASE c.kind = "move_item" -> MoveItemCommand_execute(c, lst)
      [] c.kind = "move_content" -> MoveContentBlockCommand_execute(c, lst)
      [] c.kind = "insert_item" ->
           [command |-> c, data |-> insert(lst, c.index, Item(c.role, <<>>))]
      [] c.kind = "remove_item" ->
           [command |-> [c EXCEPT !.removed_item = lst[c.index + 1]],
            data |-> pop(lst, c.index)]

\* base_command.py:16-18  undo of each command, as the list it leaves
Undo(c, lst) ==
    CASE c.kind = "move_item" -> MoveItemCommand_undo(c, lst)
      [] c.kind = "move_content" -> MoveContentBlockCommand_undo(c, lst)
      [] c.kind = "insert_item" -> pop(lst, c.index)
      [] c.kind = "remove_item" ->
           IF c.removed_item # None THEN insert(lst, c.index, c.removed_item)
           ELSE lst

\* the command under test is executed for the first time
execute ==
    /\ command # NoCommand
    /\ made = <<>>
    /\ LET r == Execute(command, conv_data)
       IN /\ command' = r.command
          /\ conv_data' = r.data
          /\ executed' = r.data
    /\ made' = <<"execute">>
    /\ UNCHANGED <<constructed, undo_stack, redo_stack, clean_index, saved,
                   encVars, wrVars, wkVars, svVars>>

\* undo is called on the command under test
command_undo ==
    /\ command # NoCommand
    /\ made # <<>>
    /\ Len(made) < MaxCalls
    /\ made[Len(made)] \in {"execute", "redo"}
    /\ conv_data' = Undo(command, conv_data)
    /\ made' = Append(made, "undo")
    /\ UNCHANGED <<command, constructed, executed, undo_stack, redo_stack,
                   clean_index, saved, encVars, wrVars, wkVars, svVars>>

\* base_command.py:20-21  redo is called on the command under test
command_redo ==
    /\ command # NoCommand
    /\ made # <<>>
    /\ Len(made) < MaxCalls
    /\ made[Len(made)] = "undo"
    /\ LET r == Execute(command, conv_data)
       IN /\ command' = r.command
          /\ conv_data' = r.data
    /\ made' = Append(made, "redo")
    /\ UNCHANGED <<constructed, executed, undo_stack, redo_stack,
                   clean_index, saved, encVars, wrVars, wkVars, svVars>>

\* the conversations whose items are moved: items without content, so that
\* items of the same role are equal by value
ItemLists == ListsUpTo({Item(r, <<>>) : r \in Roles}, MaxItems) \ {<<>>}
\* the conversations whose content blocks are moved: one or two items
ContentLists ==
    {lst \in ListsUpTo({Item("user", c) : c \in ListsUpTo(Blocks, MaxBlocks)}, 2) :
       lst # <<>>}

\* a command made for a conversation, before any call on it
EditorWith(lst, c) ==
    /\ conv_data = lst
    /\ command = c
    /\ made = <<>>
    /\ constructed = lst
    /\ executed = <<>>
    /\ undo_stack = <<>>
    /\ redo_stack = <<>>
    /\ clean_index = 0
    /\ saved = lst

\* undo_manager.py:28-30  UndoManager.is_clean
is_clean == Len(undo_stack) = clean_index

\* the commands the main window makes for the items of a conversation
\* (main_window.py:591-605)
ItemCommands(lst) ==
    {InsertItemCommand(i, r) : i \in 0..Len(lst), r \in Roles}
      \cup {RemoveItemCommand(i) : i \in 0..(Len(lst) - 1)}

\* undo_manager.py:32-49  UndoManager.do
do ==
    /\ Len(undo_stack) < MaxCalls
    /\ \E c \in ItemCommands(conv_data) :
         /\ c.kind = "insert_item" => Len(conv_data) < MaxItems
         /\ LET r == Execute(c, conv_data)
            IN /\ conv_data' = r.data
               /\ undo_stack' = Append(undo_stack, r.command)
    /\ redo_stack' = <<>>
    /\ UNCHANGED <<command, made, constructed, executed, clean_index, saved,
                   encVars, wrVars, wkVars, svVars>>

\* undo_manager.py:51-65  UndoManager.undo
undo ==
    /\ undo_stack # <<>>
    /\ LET c == undo_stack[Len(undo_stack)]
       IN /\ conv_data' = Undo(c, conv_data)
          /\ redo_stack' = Append(redo_stack, c)
    /\ undo_stack' = SubSeq(undo_stack, 1, Len(undo_stack) - 1)
    /\ UNCHANGED <<command, made, constructed, executed, clean_index, saved,
                   encVars, wrVars, wkVars, svVars>>

\* undo_manager.py:67-81  UndoManager.redo
redo ==
    /\ redo_stack # <<>>
    /\ LET r == Execute(redo_stack[Len(redo_stack)], conv_data)
       IN /\ conv_data' = r.data
          /\ undo_stack' = Append(undo_stack, r.command)
    /\ redo_stack' = SubSeq(redo_stack, 1, Len(redo_stack) - 1)
    /\ UNCHANGED <<command, made, constructed, executed, clean_index, saved,
                   encVars, wrVars, wkVars, svVars>>

\* main_window.py:430-433  _clear_and_reset_state: discard_and_close
\* (conversation.py:124-127), then undo_manager.py:83-89  UndoManager.clear
clear ==
    /\ conv_data' = <<>>
    /\ undo_stack' = <<>>
    /\ redo_stack' = <<>>
    /\ clean_index' = 0
    /\ saved' = <<>>
    /\ UNCHANGED <<command, made, constructed, executed,
                   encVars, wrVars, wkVars, svVars>>

\* main_window.py:530-538  save_conversation: the conversation is written,
\* then undo_manager.py:91-95  UndoManager.set_clean
set_clean ==
    /\ clean_index' = Len(undo_stack)
    /\ saved' = conv_data
    /\ UNCHANGED <<conv_data, command, made, constructed, executed,
                   undo_stack, redo_stack, encVars, wrVars, wkVars, svVars>>

(***************************************************************************)
(* OpenAIService (services/openai_service.py).  Each calling thread        *)
(* consumes the generator it got to its end; a step of a thread is one     *)
(* access to the shared flag or one wait for the API.  The test of the     *)
(* flag and the yield that follows it are one step.                        *)
(***************************************************************************)
\* threads that call a stream method on the one service
MaxStreams == 2
\* chunks the API sends for one stream
MaxChunks == 2

Threads == 1..MaxStreams
NoThread == 0
Methods == {"chat", "completion"}
\* a thread that has not called the service
NotCalled ==
    [pc |-> "idle", method |-> "none", yielded |-> 0, stopped |-> FALSE,
     late |-> 0, left |-> "none"]
\* the generator is inside its try block (openai_service.py:46-56, 71-80)
InTry(t) == streams[t].pc \in {"create", "next"}

\* openai_service.py:13-16  OpenAIService.__init__
ServiceIdle ==
    /\ is_generating = FALSE
    /\ _lock = NoThread
    /\ streams = [t \in Threads |-> NotCalled]

\* openai_service.py:39-40: a thread calls the method and its generator takes
\* the lock
get_chat_response_stream ==
    \E t \in Threads :
      /\ streams[t].pc = "idle"
      /\ _lock = NoThread
      /\ _lock' = t
      /\ streams' = [streams EXCEPT ![t].pc = "locked", ![t].method = "chat"]
      /\ UNCHANGED <<is_generating, encVars, wrVars, wkVars, edVars>>

\* openai_service.py:64-65: a thread calls the method and its generator takes
\* the lock
get_completion_response_stream ==
    \E t \in Threads :
      /\ streams[t].pc = "idle"
      /\ _lock = NoThread
      /\ _lock' = t
      /\ streams' = [streams EXCEPT ![t].pc = "locked",
                                    ![t].method = "completion"]
      /\ UNCHANGED <<is_generating, encVars, wrVars, wkVars, edVars>>

\* openai_service.py:41, 66: the call returns at once when the flag is set
Guarded(flag) == flag

\* openai_service.py:41-44, 66-69: the body of the with block
test_and_set ==
    \E t \in Threads :
      /\ streams[t].pc = "locked"
      /\ _lock = t
      /\ _lock' = NoThread
      /\ IF Guarded(is_generating)
         THEN /\ streams' = [streams EXCEPT ![t].pc = "done",
                                            ![t].left = "busy"]
              /\ UNCHANGED is_generating
         ELSE /\ streams' = [streams EXCEPT ![t].pc = "create"]
              /\ is_generating' = TRUE
      /\ UNCHANGED <<encVars, wrVars, wkVars, edVars>>

\* openai_service.py:47, 72: the request is made and answered, or it raises
\* OpenAIError
create ==
    \E t \in Threads, raises \in BOOLEAN :
      /\ streams[t].pc = "create"
      /\ streams' = IF raises
                    THEN [streams EXCEPT ![t].pc = "finally", ![t].left = "error"]
                    ELSE [streams EXCEPT ![t].pc = "next"]
      /\ UNCHANGED <<is_generating, _lock, encVars, wrVars, wkVars, edVars>>

\* openai_service.py:48-56, 73-80: one turn of the for loop
next_chunk ==
    \E t \in Threads :
      /\ streams[t].pc = "next"
      /\ streams' =
           IF streams[t].yielded = MaxChunks
           THEN [streams EXCEPT ![t].pc = "finally", ![t].left = "exhausted"]
           ELSE IF ~is_generating
           THEN [streams EXCEPT ![t].pc = "finally", ![t].left = "break"]
           ELSE [streams EXCEPT ![t].yielded = @ + 1,
                                ![t].late = IF streams[t].stopped THEN @ + 1
                                            ELSE @]
      /\ UNCHANGED <<is_generating, _lock, encVars, wrVars, wkVars, edVars>>

\* openai_service.py:60-62, 84-86: the finally block
finally ==
    \E t \in Threads :
      /\ streams[t].pc = "finally"
      /\ is_generating' = FALSE
      /\ streams' = [streams EXCEPT ![t].pc = "done"]
      /\ UNCHANGED <<_lock, encVars, wrVars, wkVars, edVars>>

\* openai_service.py:34-37  OpenAIService.stop_generation, called from the
\* GUI thread; the streams inside their try block are the ones asked to stop
stop_generation ==
    /\ is_generating
    /\ is_generating' = FALSE
    /\ streams' = [t \in Threads |->
                     IF InTry(t) THEN [streams[t] EXCEPT !.stopped = TRUE]
                     ELSE streams[t]]
    /\ UNCHANGED <<_lock, encVars, wrVars, wkVars, edVars>>

EncIdle ==
    /\ include_reasoning = TRUE
    /\ assistant_name = "assistant"
    /\ conv = <<>>
    /\ all_input_ids = <<>>
    /\ all_labels = <<>>
    /\ pc = "bos"
    /\ log = <<>>
    /\ nread = 0
    /\ result = NoResult

Init == EncInit /\ WriterInit /\ WorkerIdle /\ EditorIdle /\ ServiceIdle

Next ==
    \/ EmitBOS
    \/ EmitHeader
    \/ EmitTextSegment
    \/ EmitThinkStart
    \/ EmitReasoningSegment
    \/ EmitThinkEnd
    \/ SkipReasoning
    \/ EmitToolCalls
    \/ EmitTools
    \/ EmitToolResults
    \/ EmitEOT
    \/ Return

Spec == Init /\ [][Next]_vars

\* the encoder run with the default of config.assistant_name (config.py:28)
DefaultNameInit == Init /\ assistant_name = "assistant"
DefaultNameSpec == DefaultNameInit /\ [][Next]_vars

CommandNext ==
    \/ execute
    \/ command_undo
    \/ command_redo

\* a MoveItemCommand for every valid pair of indices
MoveItemInit ==
    /\ EncIdle
    /\ WriterInit
    /\ WorkerIdle
    /\ \E lst \in ItemLists :
         \E s \in 0..(Len(lst) - 1), t \in 0..Len(lst) :
           EditorWith(lst, MoveItemCommand(s, t))
    /\ ServiceIdle
MoveItemSpec == MoveItemInit /\ [][CommandNext]_vars

\* a MoveContentBlockCommand for every valid source and target position
MoveContentInit ==
    /\ EncIdle
    /\ WriterInit
    /\ WorkerIdle
    /\ \E lst \in ContentLists :
         \E si \in 0..(Len(lst) - 1), ti \in 0..(Len(lst) - 1) :
           \E sc \in 0..(Len(lst[si + 1].content) - 1),
              tc \in 0..Len(lst[ti + 1].content) :
             EditorWith(lst, MoveContentBlockCommand(si, sc, ti, tc))
    /\ ServiceIdle
MoveContentSpec == MoveContentInit /\ [][CommandNext]_vars

UndoManagerNext ==
    \/ do
    \/ undo
    \/ redo
    \/ clear
    \/ set_clean

\* a new main window: an empty conversation and an empty UndoManager
UndoManagerInit == EncIdle /\ WriterInit /\ WorkerIdle /\ EditorIdle /\ ServiceIdle
UndoManagerSpec == UndoManagerInit /\ [][UndoManagerNext]_vars

ServiceNext ==
    \/ get_chat_response_stream
    \/ get_completion_response_stream
    \/ test_and_set
    \/ create
    \/ next_chunk
    \/ finally
    \/ stop_generation

\* a new service and threads that have yet to call it
ServiceInit == EncIdle /\ WriterInit /\ WorkerIdle /\ EditorIdle /\ ServiceIdle
ServiceSpec == ServiceInit /\ [][ServiceNext]_vars

WriterNext ==
    \/ __enter__
    \/ append
    \/ close

WriterSpecInit == EncIdle /\ WriterInit /\ WorkerIdle /\ EditorIdle /\ ServiceIdle

WriterSpec == WriterSpecInit /\ [][WriterNext]_vars

WorkerNext ==
    \/ LoadTokenizer
    \/ Scan
    \/ Open
    \/ LoopTop
    \/ Parse
    \/ EncodeFile
    \/ AppendRecord
    \/ ExitScope
    \/ Finish
    \/ Except
    \/ stop
    \/ _on_export_completed
    \/ _on_error

\* the runs of one dialog: the worker actions and the start button
DialogNext ==
    \/ LoadTokenizer
    \/ Scan
    \/ Open
    \/ LoopTop
    \/ Parse
    \/ EncodeFile
    \/ AppendRecord
    \/ ExitScope
    \/ Finish
    \/ Except
    \/ stop
    \/ _on_export_completed
    \/ _on_error
    \/ _start_or_stop_export

\* the directory the runs of a dialog are given holds at most one file: one
\* that does not parse, a chat without and a chat with a leading system
\* item, or an empty conversation
DialogContents ==
    {InvalidJson, JsonFile(ConvChat), JsonFile(ConvSystem), JsonFile(ConvEmpty)}
DialogInit ==
    /\ EncIdle
    /\ WriterInit
    /\ WorkerStartWith({FALSE}, {1}, DialogContents,
                       SysPromptFiles \cup TemplateFiles,
                       {"ok", "unloadable"}, {DefaultTokens, EmptyThinkStart})
    /\ EditorIdle
    /\ ServiceIdle
DialogSpec == DialogInit /\ [][DialogNext]_vars

\* a run of the worker with the repository's encoder
WorkerSpecInit == EncIdle /\ WriterInit /\ WorkerStart({FALSE}) /\ EditorIdle /\ ServiceIdle
WorkerSpec == WorkerSpecInit /\ [][WorkerNext]_vars

\* a run of the worker with an encoder that returns streams of unequal length
WorkerDefectInit == EncIdle /\ WriterInit /\ WorkerStart({TRUE}) /\ EditorIdle /\ ServiceIdle
WorkerDefectSpec == WorkerDefectInit /\ [][WorkerNext]_vars

(***************************************************************************)
(* Properties of the conversation encoder (checked under Spec; C3, C4 and  *)
(* C5 under DefaultNameSpec).                                              *)
(***************************************************************************)
\* the ids and the labels the streams hold at the positions of emission e
IdsOf(e) == SubSeq(all_input_ids, e.start + 1, e.start + Len(e.ids))
LabelsOf(e) == SubSeq(all_labels, e.lstart + 1, e.lstart + Len(e.ids))
AllIgnore(labels) ==
    \A k \in 1..Len(labels) : labels[k] = cross_entropy_ignore_index
SegmentOf(e) == conv[e.item].content[e.block].segments[e.seg]
RoleOf(e) == conv[e.item].role
Emissions(kinds) == {n \in 1..Len(log) : log[n].kind \in kinds}
\* the emissions made for block b of item i, in emission order
EmissionsOfBlock(i, b) ==
    LET OfBlock(e) == e.item = i /\ e.block = b /\ e.kind \notin {"header", "eot"}
    IN SelectSeq(log, OfBlock)
IsPrefix(p, q) ==
    /\ Len(p) <= Len(q)
    /\ \A k \in 1..Len(p) : p[k] = q[k]

\* C1: input_ids and labels have the same length after every emission step
\* (BOS, header, segment, reasoning wrapper, tool block, EOT) and in the
\* returned record, for every conversation and every include_reasoning.
C1_LengthsEqual ==
    /\ Len(all_input_ids) = Len(all_labels)
    /\ result.returned =>
         /\ Len(result.input_ids) = Len(result.labels)
         /\ result.input_ids = all_input_ids
         /\ result.labels = all_labels

\* a returned record of two items that holds a two-id text emission, an empty
\* one and a reasoning wrapper or a tool block
C1_Witness ==
    /\ result.returned
    /\ Len(conv) = 2
    /\ \E n \in Emissions({"text"}) : Len(log[n].ids) = 2
    /\ \E n \in Emissions({"text", "reason"}) : Len(log[n].ids) = 0

\* C2: a token emitted from a Text segment is labeled with its own id iff the
\* segment is learnable and the item's role equals config.assistant_name;
\* otherwise its label is the ignore sentinel.
C2_TextMasking ==
    \A n \in Emissions({"text"}) :
      LET e == log[n]
          learnable == SegmentOf(e).learnable /\ RoleOf(e) = assistant_name
      IN /\ e.ids = Encode(Str(SegmentOf(e).text))
         /\ IdsOf(e) = e.ids
         /\ \A k \in 1..Len(e.ids) :
              /\ LabelsOf(e)[k] = e.ids[k] <=> learnable
              /\ ~learnable => LabelsOf(e)[k] = cross_entropy_ignore_index

\* a returned record with a learnable text segment in an assistant item and
\* another learnable text segment in a non-assistant item
C2_Witness ==
    /\ result.returned
    /\ \E n, m \in Emissions({"text"}) :
         /\ Len(log[n].ids) > 0 /\ Len(log[m].ids) > 0
         /\ SegmentOf(log[n]).learnable /\ RoleOf(log[n]) = assistant_name
         /\ SegmentOf(log[m]).learnable /\ RoleOf(log[m]) # assistant_name

\* C3: every item emits the end-of-turn ids exactly once, after everything
\* else it emits, labeled with the ids iff the item's role is
\* config.assistant_name and with the ignore sentinel otherwise.
C3_EotOncePerItem ==
    \A i \in 1..Len(conv) :
      LET eots == {n \in Emissions({"eot"}) : log[n].item = i}
          finished == i < Len(conv) \/ pc \in {"items", "done"}
      IN /\ Cardinality(eots) = IF finished THEN 1 ELSE 0
         /\ \A n \in eots :
              /\ \A m \in 1..Len(log) : log[m].item = i => m <= n
              /\ log[n].block = Len(conv[i].content)
              /\ log[n].ids = Encode(Str(eot))
              /\ IdsOf(log[n]) = log[n].ids
              /\ \A k \in 1..Len(log[n].ids) :
                   /\ LabelsOf(log[n])[k] = log[n].ids[k] <=> conv[i].role = assistant_name
                   /\ conv[i].role # assistant_name =>
                        LabelsOf(log[n])[k] = cross_entropy_ignore_index

\* a returned record of an assistant item and a non-assistant item that has
\* content blocks
C3_Witness ==
    /\ result.returned
    /\ \E i, j \in 1..Len(conv) :
         /\ conv[i].role = assistant_name
         /\ conv[j].role # assistant_name
         /\ Len(conv[j].content) > 0

\* C4: with include_reasoning set, a Reasoning block emits the think_start ids,
\* then its segments in order, then the think_end ids (followed by the ids of
\* the newline encoded with them); the wrapper positions are labeled with
\* their own ids for every role, and a segment's labels are its ids iff the
\* segment is learnable, whatever the item's role.
C4_ReasoningBlock ==
    include_reasoning =>
      \A i \in 1..Len(conv) : \A b \in 1..Len(conv[i].content) :
        conv[i].content[b].type = "reason" =>
          LET segments == conv[i].content[b].segments
              n == Len(segments)
              open == pc = "reason" /\ i = Len(conv) /\ b = Len(conv[i].content)
              es == EmissionsOfBlock(i, b)
          IN /\ Len(es) = IF open THEN n + 1 ELSE n + 2
             /\ \A k \in 1..Len(es) : IdsOf(es[k]) = es[k].ids
             /\ \A k \in 1..(Len(es) - 1) : es[k + 1].start = es[k].start + Len(es[k].ids)
             /\ es[1].kind = "think_start"
             /\ es[1].ids = Encode(Str(think_start))
             /\ LabelsOf(es[1]) = es[1].ids
             /\ \A j \in 1..n :
                  /\ es[1 + j].kind = "reason"
                  /\ es[1 + j].ids = Encode(Str(segments[j].text))
                  /\ segments[j].learnable => LabelsOf(es[1 + j]) = es[1 + j].ids
                  /\ ~segments[j].learnable => AllIgnore(LabelsOf(es[1 + j]))
             /\ ~open =>
                  /\ es[n + 2].kind = "think_end"
                  /\ es[n + 2].ids = Encode(Str(think_end)) \o Encode(<<"\n">>)
                  /\ LabelsOf(es[n + 2]) = es[n + 2].ids

\* a returned record with a Reasoning block, in a non-assistant item, of a
\* learnable segment and a non-learnable one, both non-empty
C4_Witness ==
    /\ result.returned
    /\ include_reasoning
    /\ \E n, m \in Emissions({"reason"}) :
         /\ log[n].item = log[m].item /\ log[n].block = log[m].block
         /\ RoleOf(log[n]) # assistant_name
         /\ SegmentOf(log[n]).learnable /\ Len(log[n].ids) > 0
         /\ ~SegmentOf(log[m]).learnable /\ Len(log[m].ids) > 0

\* the text C5 states for a ToolCalls block: every call as compact JSON, each
\* wrapped in tool_call_start / tool_call_end, joined by newline
WrappedCalls(calls) ==
    Join(<<"\n">>, [c \in 1..Len(calls) |->
                       <<tool_call_start>> \o DumpCall(calls[c]) \o <<tool_call_end>>])

\* C5: a ToolCalls block emits its calls, each serialized as compact JSON and
\* wrapped in the tool-call start/end tokens, joined by newline (the ids of a
\* closing newline follow); every position is labeled with its own id for
\* every role.
C5_ToolCalls ==
    \A n \in Emissions({"tool_call"}) :
      LET e == log[n]
          calls == conv[e.item].content[e.block].calls
      IN /\ IdsOf(e) = e.ids
         /\ LabelsOf(e) = e.ids
         /\ (\A c \in 1..Len(calls) : calls[c].arguments # Unserializable) =>
              e.ids = Encode(WrappedCalls(calls)) \o Encode(<<"\n">>)

\* a returned record with a ToolCalls block of two serializable calls in a
\* non-assistant item
C5_Witness ==
    /\ result.returned
    /\ \E n \in Emissions({"tool_call"}) :
         LET calls == conv[log[n].item].content[log[n].block].calls
         IN /\ Len(calls) = 2
            /\ \A c \in 1..2 : calls[c].arguments # Unserializable
            /\ RoleOf(log[n]) # assistant_name

\* C6: every position emitted for the begin-of-text token, a role header, a
\* ToolDefinitions block or a ToolResults block is labeled with the ignore
\* sentinel, for every role and whatever is learnable elsewhere in the item.
C6_AlwaysIgnored ==
    \A n \in Emissions({"bos", "header", "tools", "tool_response"}) :
      /\ IdsOf(log[n]) = log[n].ids
      /\ Len(LabelsOf(log[n])) = Len(log[n].ids)
      /\ AllIgnore(LabelsOf(log[n]))

\* a returned record with a ToolDefinitions block, a ToolResults block and a
\* learnable text segment in one assistant item
C6_Witness ==
    /\ result.returned
    /\ \E n \in Emissions({"tools"}), m \in Emissions({"tool_response"}),
          t \in Emissions({"text"}) :
         /\ log[n].item = log[m].item /\ log[n].item = log[t].item
         /\ RoleOf(log[n]) = assistant_name
         /\ SegmentOf(log[t]).learnable /\ Len(log[t].ids) > 0

(***************************************************************************)
(* Properties of the dataset writer (checked under WriterSpec).            *)
(***************************************************************************)
\* the step is a call of append (a repeated call that changes nothing is a
\* stuttering step)
AppendStep == last_call'.op = "append"
Rows(ds) == Len(ds)
RowsKept(old, new) == IsPrefix(old, new)
Given(d) == d.input_ids # None /\ d.labels # None
\* d is a pair of one-dimensional arrays of equal length
ValidPair(d) ==
    /\ Given(d)
    /\ d.input_ids.ndim = 1
    /\ Len(d.input_ids.elems) = Len(d.labels.elems)

C8_AppendOnly ==
    [][ /\ RowsKept(ds_input_ids, ds_input_ids')
        /\ RowsKept(ds_labels, ds_labels')
        /\ (AppendStep /\ last_call'.outcome = "stored") =>
             /\ Rows(ds_input_ids') = Rows(ds_input_ids) + 1
             /\ Rows(ds_labels') = Rows(ds_labels) + 1
             /\ ds_input_ids'[Rows(ds_input_ids')] = last_call'.data.input_ids.elems
             /\ ds_labels'[Rows(ds_labels')] = last_call'.data.labels.elems
        /\ (AppendStep /\ file = OpenFile /\ ValidPair(last_call'.data)
              /\ Len(last_call'.data.input_ids.elems) > 0) =>
             last_call'.outcome = "stored"
      ]_vars

\* a third row has just been stored behind two different rows
C8_Witness ==
    /\ last_call.op = "append"
    /\ last_call.outcome = "stored"
    /\ Rows(ds_input_ids) = 3
    /\ ds_labels[1] # ds_labels[2]
    /\ ds_labels[3] = last_call.data.labels.elems

\* C9: append with len(input_ids) # len(labels) on an open writer raises the
\* shape error and leaves the rows, the row count and the open file as they
\* were; a valid non-empty append that follows it stores one more row.
C9_ShapeError ==
    [][ /\ (AppendStep /\ file = OpenFile /\ Given(last_call'.data)
              /\ Len(last_call'.data.input_ids.elems) # Len(last_call'.data.labels.elems)) =>
             /\ last_call'.outcome = "ValueError:shape"
             /\ ds_input_ids' = ds_input_ids
             /\ ds_labels' = ds_labels
             /\ size' = size
             /\ file' = OpenFile
        /\ (AppendStep /\ last_call'.prev = "ValueError:shape"
              /\ ValidPair(last_call'.data)
              /\ Len(last_call'.data.input_ids.elems) > 0) =>
             /\ file = OpenFile
             /\ last_call'.outcome = "stored"
             /\ Rows(ds_input_ids') = Rows(ds_input_ids) + 1
             /\ Rows(ds_labels') = Rows(ds_labels) + 1
             /\ size' = size + 1
      ]_vars

\* a row stored by the append that follows a shape error, behind an earlier row
C9_Witness ==
    /\ last_call.op = "append"
    /\ last_call.outcome = "stored"
    /\ last_call.prev = "ValueError:shape"
    /\ Rows(ds_input_ids) = 2

\* C10: append of a zero-length pair of one-dimensional arrays on an open
\* writer raises nothing and leaves the rows, the row count and the open file
\* as they were.
C10_EmptyNoop ==
    [][ (AppendStep /\ file = OpenFile /\ ValidPair(last_call'.data)
           /\ Len(last_call'.data.input_ids.elems) = 0) =>
          /\ last_call'.outcome = "return"
          /\ ds_input_ids' = ds_input_ids
          /\ ds_labels' = ds_labels
          /\ size' = size
          /\ stored' = stored
          /\ file' = OpenFile
      ]_vars

\* append([], []) has just returned on an open writer that holds a row
C10_Witness ==
    /\ last_call.op = "append"
    /\ last_call.outcome = "return"
    /\ ValidPair(last_call.data)
    /\ Len(last_call.data.input_ids.elems) = 0
    /\ file = OpenFile
    /\ Rows(ds_input_ids) >= 1

\* the record the emission steps return is process_conversation of the
\* conversation they read
StepsAgreeWithFunction ==
    result.returned =>
      LET r == process_conversation(conv, include_reasoning, assistant_name)
      IN r.input_ids = result.input_ids /\ r.labels = result.labels

\* C11: close() on a writer whose file is already closed changes nothing and
\* raises nothing; append on a writer that is closed or was never opened
\* raises the illegal-state error (IOError) and writes nothing.
C11_ClosedWriter ==
    [][ /\ (last_call'.op = "close" /\ file = None) =>
             /\ last_call'.outcome = "noop"
             /\ UNCHANGED <<file, size, ds_input_ids, ds_labels, stored>>
        /\ (AppendStep /\ file = None) =>
             /\ last_call'.outcome = "IOError"
             /\ UNCHANGED <<file, size, ds_input_ids, ds_labels, stored>> ]_vars

\* a writer holding a row was closed twice, and a storable pair appended to
\* it afterwards was refused
C11_Witness ==
    /\ last_call.op = "append"
    /\ last_call.outcome = "IOError"
    /\ last_call.prev = "noop"
    /\ ValidPair(last_call.data)
    /\ Len(last_call.data.input_ids.elems) > 0
    /\ Rows(ds_input_ids) >= 1
    /\ file = None

(***************************************************************************)
(* Claims about the export worker.                                         *)
(***************************************************************************)
Last(s) == s[Len(s)]
IsTerminal(e) == e.sig \in {"export_completed", "error"}
\* the body of the with block was entered and left, or __enter__ raised
ScopeEnded == wpc \in {"finish", "except"} \/ (wpc = "done" /\ Total > 0)

\* C12: once control has left the writer's scope - normally, by an exception
\* in the body, or by an exception while __enter__ creates the file and its
\* datasets - the file handle is closed.
C12_ScopeExitCloses == ScopeEnded => file = None

\* the paths of S in ascending order
Ascending(S) ==
    CHOOSE s \in Listings(S) : \A a, b \in 1..Len(s) : a < b => s[a] < s[b]
\* the record the exporter makes of a file that parses
RecordOf(f) ==
    process_conversation(WithSystemPrompt(f.data, sysprompt, now),
                         include_reasoning, assistant_name)
\* f validates and encodes to a non-empty record
Exportable(f) ==
    /\ f \notin {InvalidJson, JsonFile(ConvUnknownBlock)}
    /\ ~EncodeRaises(WithSystemPrompt(f.data, sysprompt, now))
    /\ Len(RecordOf(f).input_ids) > 0
\* the records of the exportable files among the first k in ascending order
RECURSIVE ExpectedRows(_)
ExpectedRows(k) ==
    IF k = 0 THEN <<>>
    ELSE LET f == corpus[Ascending(DOMAIN corpus)[k]]
         IN IF Exportable(f) THEN Append(ExpectedRows(k - 1), RecordOf(f))
            ELSE ExpectedRows(k - 1)
\* the number of files whose iteration has ended
Attempted == IF wpc \in {"parse", "encode", "append"} THEN file_index - 1 ELSE file_index
Scanned == wpc \notin {"idle", "start", "scan"} /\ tokenizer_file = "ok"
RowsAreExpected(k) ==
    LET rows == ExpectedRows(k)
    IN /\ ds_input_ids = [r \in 1..Len(rows) |-> rows[r].input_ids]
       /\ ds_labels = [r \in 1..Len(rows) |-> rows[r].labels]

\* C13: after the scan the file list is the paths in ascending order, and
\* the rows of the two datasets are, in that order, the records of the files
\* attempted so far that validated and encoded to a non-empty record (as
\* long as no h5py call has failed).
C13_RowOrder ==
    Scanned =>
      /\ files_to_process = Ascending(DOMAIN corpus)
      /\ exc # "storage" => RowsAreExpected(Attempted)

\* a finished run over two files that left two different rows
C13_Witness ==
    /\ wpc = "done"
    /\ Last(events) = ExportCompleted
    /\ Len(ds_input_ids) = 2
    /\ ds_input_ids[1] # ds_input_ids[2]

\* f is not JSON, or is JSON that is not a list of Items
Malformed(f) == f \in {InvalidJson, JsonFile(ConvUnknownBlock)}
CurrentFile == corpus[files_to_process[file_index]]

StoppedMidFile == stop_at.pc \in {"parse", "encode", "append"}
\* C15: when stop() is called while file k is being processed, no later file
\* is begun; unless an exception ends the run, file k is parsed, encoded and
\* appended as if nothing had been asked, so the rows are the records of the
\* exportable files up to k; every row stored so far is still the record it
\* was written with; the loop is then left by the break (or because k was
\* the last file); and the file is closed when run has ended.
C15_CancelAtBoundary ==
    StoppedMidFile =>
      /\ file_index = stop_at.k
      /\ (wpc \in {"loop", "exit", "finish", "done"} /\ exc = NoExc) =>
           /\ Len(outcomes) = stop_at.k
           /\ RowsAreExpected(stop_at.k)
      /\ \A r \in 1..stored :
           /\ r <= Len(ds_input_ids) /\ r <= Len(ds_labels)
           /\ ds_input_ids[r] = ExpectedRows(stop_at.k)[r].input_ids
           /\ ds_labels[r] = ExpectedRows(stop_at.k)[r].labels
      /\ (wpc \in {"finish", "done"} /\ exc = NoExc) =>
           loop_end = "break" \/ stop_at.k = Total
      /\ wpc = "done" => file = None

\* stop() came while the first of two files was being appended; its row is
\* there, the second file was never begun and the run has ended
C15_Witness ==
    /\ stop_at = [pc |-> "append", k |-> 1]
    /\ Total = 2
    /\ wpc = "done"
    /\ outcomes = <<"row">>
    /\ Len(ds_input_ids) = 1
    /\ file = None

\* C16: whenever append has returned or failed, the two datasets have the
\* same rows and every row holds its data in both.
C16_RowAtomic ==
    wpc \in {"loop", "exit", "finish", "except", "done"} =>
      /\ Len(ds_input_ids) = Len(ds_labels)
      /\ \A r \in 1..Len(ds_input_ids) :
           /\ r <= Len(ds_labels)
           /\ ds_input_ids[r] # <<>>
           /\ ds_labels[r] # <<>>

Terminals == {n \in 1..Len(events) : IsTerminal(events[n])}

\* C17: a run that has returned has emitted exactly one terminal signal
\* (export_completed or error) and it is the last signal of the run, so no
\* progress signal follows it; a run that has not returned has emitted none.
C17_OneTerminalEvent ==
    /\ wpc = "done" => Terminals = {Len(events)}
    /\ wpc # "done" => Terminals = {}

\* a run that stored a row and then ended with the error signal because the
\* encoder raised on its second file
C17_Witness ==
    /\ wpc = "done"
    /\ outcomes = <<"row", "encode_error">>
    /\ Last(events) = Error("encode")

\* C18: the terminal signal of a run that was cancelled (the loop was left
\* by the break) is not the signal of a successful run, and the dialog does
\* not answer it with its success box.
C18_DistinctOutcomes ==
    (wpc = "done" /\ loop_end = "break") =>
      /\ Last(events) # ExportCompleted
      /\ box # NoBox => box.title # "Success"

\* C19: a file whose text the tokenizer rejects does not end the run: no
\* exception leaves the loop because of it.
C19_EncodeErrorSkips ==
    \A k \in 1..Len(outcomes) :
        outcomes[k] = "encode_error" => exc = NoExc /\ wpc # "except"

IsReasoning(content_part) == content_part.type = "reason"
NotReasoning(content_part) == ~IsReasoning(content_part)
\* the conversation with every Reasoning block taken out of every item
WithoutReasoning(conversation) ==
    [i \in 1..Len(conversation) |->
        [conversation[i] EXCEPT !.content = SelectSeq(@, NotReasoning)]]

\* C27: with include_reasoning false the returned record is, position by
\* position, the record of the conversation with all its Reasoning blocks
\* removed, and no emission was made for a reasoning wrapper or segment.
C27_ReasoningOmitted ==
    (result.returned /\ ~include_reasoning) =>
      /\ Emissions({"think_start", "reason", "think_end"}) = {}
      /\ Record(result.input_ids, result.labels) =
           process_conversation(WithoutReasoning(conv), TRUE, assistant_name)

\* a record returned with include_reasoning false for a conversation with a
\* Reasoning block holding a non-empty learnable segment between other blocks
C27_Witness ==
    /\ result.returned
    /\ ~include_reasoning
    /\ \E i \in 1..Len(conv) : \E b \in 2..Len(conv[i].content) :
         /\ IsReasoning(conv[i].content[b])
         /\ NotReasoning(conv[i].content[b - 1])
         /\ \E s \in 1..Len(conv[i].content[b].segments) :
              /\ conv[i].content[b].segments[s].text # ""
              /\ conv[i].content[b].segments[s].learnable

\* the canonical empty form of a block kind, inside the kind's start/end tokens
CanonicalEmpty(kind) ==
    IF kind = "tool_call" THEN <<tool_call_start, "{}", tool_call_end>>
    ELSE <<tool_response_start, "[", "]", tool_response_end>>
\* a block on which json.dumps raises
FailingBlock(content_part) ==
    \/ /\ content_part.type = "tool_call"
       /\ \E c \in 1..Len(content_part.calls) :
            content_part.calls[c].arguments = Unserializable
    \/ /\ content_part.type = "tool_response"
       /\ \E r \in 1..Len(content_part.results) :
            content_part.results[r].content = Unserializable
SerializableBlock(content_part) == ~FailingBlock(content_part)
\* json.dumps raises on the block of emission e
SerializationFails(e) ==
    /\ e.kind \in {"tool_call", "tool_response"}
    /\ FailingBlock(conv[e.item].content[e.block])
WithoutFailingBlocks(conversation) ==
    [i \in 1..Len(conversation) |->
        [conversation[i] EXCEPT !.content = SelectSeq(@, SerializableBlock)]]
\* what the first n emissions put into the streams, those of failing blocks
\* left out
RECURSIVE OtherEmissions(_)
OtherEmissions(n) ==
    IF n = 0 THEN Record(<<>>, <<>>)
    ELSE Cat(OtherEmissions(n - 1),
             IF SerializationFails(log[n]) THEN Record(<<>>, <<>>)
             ELSE Record(IdsOf(log[n]), LabelsOf(log[n])))

\* C28: in the returned record a ToolCalls or ToolResults block whose
\* serialization fails stands as {} (calls) or [] (results) inside its
\* start/end tokens, followed by the newline of every tool block, with the
\* labels of its kind (own ids for calls, ignore for results); the encoding
\* ran on to the end, and what the other emissions put into the record is the
\* record of the conversation without the failing blocks.
C28_SerializationFallback ==
    result.returned =>
      /\ \A n \in 1..Len(log) :
           SerializationFails(log[n]) =>
             /\ IdsOf(log[n]) = Encode(CanonicalEmpty(log[n].kind) \o <<"\n">>)
             /\ log[n].kind = "tool_call" => LabelsOf(log[n]) = IdsOf(log[n])
             /\ log[n].kind = "tool_response" =>
                  /\ Len(LabelsOf(log[n])) = Len(IdsOf(log[n]))
                  /\ AllIgnore(LabelsOf(log[n]))
      /\ (\E n \in 1..Len(log) : SerializationFails(log[n])) =>
           OtherEmissions(Len(log)) =
             process_conversation(WithoutFailingBlocks(conv), include_reasoning,
                                  assistant_name)

\* a returned record of a conversation with a ToolCalls block whose
\* arguments json.dumps rejects, followed by a non-empty text segment
C28_Witness ==
    /\ result.returned
    /\ \E n \in Emissions({"tool_call"}), t \in Emissions({"text"}) :
         /\ SerializationFails(log[n])
         /\ n < t
         /\ Len(log[t].ids) > 0

NonEmptySegment(segment) == segment.text # ""
\* a Text or Reasoning block whose segments are all empty, or a tool block
\* with an empty list
EmptyBlock(content_part) ==
    CASE content_part.type \in {"text", "reason"} ->
           \A s \in 1..Len(content_part.segments) : content_part.segments[s].text = ""
      [] content_part.type = "tool_call" -> content_part.calls = <<>>
      [] content_part.type = "tools" -> content_part.definitions = <<>>
      [] content_part.type = "tool_response" -> content_part.results = <<>>
NonEmptyBlock(content_part) == ~EmptyBlock(content_part)
WithoutEmptySegments(content_part) ==
    IF content_part.type \in {"text", "reason"}
    THEN [content_part EXCEPT !.segments = SelectSeq(@, NonEmptySegment)]
    ELSE content_part
\* the conversation with every empty block and every empty segment removed
WithoutEmpty(conversation) ==
    [i \in 1..Len(conversation) |->
        [conversation[i] EXCEPT !.content =
            LET kept == SelectSeq(@, NonEmptyBlock)
            IN [b \in 1..Len(kept) |-> WithoutEmptySegments(kept[b])]]]

\* C26: empty segments and empty blocks contribute no id and no label: the
\* returned record is the record of the conversation with every empty
\* segment and every empty block removed.
C26_EmptyContributesNothing ==
    result.returned =>
      /\ result.input_ids =
           process_conversation(WithoutEmpty(conv), include_reasoning,
                                assistant_name).input_ids
      /\ result.labels =
           process_conversation(WithoutEmpty(conv), include_reasoning,
                                assistant_name).labels

\* the texts of the spans, concatenated
RECURSIVE SpanTexts(_)
SpanTexts(spans) ==
    IF spans = <<>> THEN <<>> ELSE Head(spans).text \o SpanTexts(Tail(spans))
\* the string spec 4.1 lists for one block (step 2b)
BlockText(content_part, with_reasoning) ==
    CASE content_part.type = "text" ->
           Join(<<>>, [s \in 1..Len(content_part.segments) |->
                          Str(content_part.segments[s].text)])
      [] content_part.type = "reason" ->
           IF with_reasoning
           THEN Str(think_start)
                \o Join(<<>>, [s \in 1..Len(content_part.segments) |->
                                  Str(content_part.segments[s].text)])
                \o Str(think_end)
           ELSE <<>>
      [] content_part.type = "tools" -> _serialize_tools(content_part)
      [] content_part.type = "tool_call" -> _serialize_tool_calls(content_part)
      [] content_part.type = "tool_response" -> _serialize_tool_results(content_part)
\* the strings spec 4.1 lists for one item (steps 2a, 2b, 2c)
ItemText(it, with_reasoning) ==
    Str(header_start) \o Str(it.role) \o Str(header_end) \o <<"\n">>
    \o Join(<<>>, [b \in 1..Len(it.content) |->
                      BlockText(it.content[b], with_reasoning)])
    \o Str(eot)
\* the concatenation, in order, of the strings spec 4.1 lists (steps 1, 2)
ListedText(conversation, with_reasoning) ==
    Str(bos) \o Join(<<>>, [i \in 1..Len(conversation) |->
                               ItemText(conversation[i], with_reasoning)])

\* C23: the spans the reader cuts a returned record into (at the positions
\* where the label changes between ignore and not ignore), decoded and
\* concatenated, are exactly the strings of spec 4.1 in order: begin-of-text,
\* then per item the header, each block's emission and the end-of-turn token.
C23_RoundTrip ==
    result.returned =>
      SpanTexts(get_processed_conversation(result.input_ids, result.labels))
        = ListedText(conv, include_reasoning)

(***************************************************************************)
(* Further properties of the export run (checked under WorkerSpec unless   *)
(* said otherwise).                                                        *)
(***************************************************************************)
StorageFailed == exc \in {"open", "storage"}
SomeFileSkipped ==
    \E k \in 1..Len(outcomes) : outcomes[k] \in {"skipped", "empty"}

\* C21: once opening the dataset file or an h5py call of append has failed,
\* no further file is begun (the failing file stays the last one), the run
\* never emits export_completed and, when it has returned, its last signal is
\* the error signal carrying the exception, which the dialog answers with the
\* critical box; a run that returned with files skipped and no such failure
\* ends with export_completed and gets the information box.
C21_StorageErrorFatal ==
    /\ StorageFailed =>
         /\ wpc \in {"exit", "except", "done"}
         /\ Len(outcomes) = file_index
         /\ exc = "open" => outcomes = <<>>
         /\ exc = "storage" => Last(outcomes) = "append_error"
         /\ \A n \in 1..Len(events) : events[n] # ExportCompleted
         /\ wpc = "done" =>
              /\ Last(events) = Error(exc)
              /\ box # NoBox =>
                   box.kind = "critical" /\ box.text = Error(exc).message
    /\ (wpc = "done" /\ exc = NoExc /\ SomeFileSkipped) =>
         /\ Last(events) = ExportCompleted
         /\ box # NoBox => box.kind = "information"

\* a run that stored the row of its first file, failed in an h5py call while
\* appending the second one and was answered by the dialog
C21_Witness ==
    /\ wpc = "done"
    /\ exc = "storage"
    /\ outcomes = <<"row", "append_error">>
    /\ box # NoBox

ProgressEvents == {n \in 1..Len(events) : events[n].sig = "progress"}

\* C25: every progress signal of a run carries the same total, the number of
\* files found by the scan, and the signal (k, total) for the k-th file
\* (k >= 1) is emitted only when that file has been processed: its outcome
\* (row appended or file skipped) is known by then.
C25_ProgressAfterFile ==
    \A n \in ProgressEvents :
      /\ events[n].total = Total
      /\ events[n].current >= 1 => Len(outcomes) >= events[n].current

\* the file parses as JSON and holds a block whose type is none of the five
HasUnknownBlock(f) ==
    /\ f.json = "valid"
    /\ \E a \in 1..Len(f.data) : \E b \in 1..Len(f.data[a].content) :
         f.data[a].content[b].type \notin KnownTypes
FileAt(k) == corpus[files_to_process[k]]
RowOutcomes == {k \in 1..Len(outcomes) : outcomes[k] = "row"}

\* C29: a file whose conversation holds a block of an unknown kind ends as
\* a skipped file: it is never handed to the encoder or the writer, so the
\* rows stored are those of the other files only; it raises nothing, and if
\* the run returned right after it with files left, that was a cancellation.
C29_UnknownBlockSkipsFile ==
    /\ \A k \in 1..Len(outcomes) :
         HasUnknownBlock(FileAt(k)) => outcomes[k] = "skipped"
    /\ (wpc \in {"encode", "append"}) => ~HasUnknownBlock(CurrentFile)
    /\ stored = Cardinality(RowOutcomes)
    /\ \A k \in RowOutcomes : ~HasUnknownBlock(FileAt(k))
    /\ (outcomes # <<>> /\ HasUnknownBlock(FileAt(Len(outcomes)))) =>
         /\ exc = NoExc
         /\ (wpc = "done" /\ Len(outcomes) < Total) => loop_end = "break"

\* a run that skipped a first file with a block of unknown kind, stored the
\* row of the second file and ended with export_completed
C29_Witness ==
    /\ wpc = "done"
    /\ Total = 2
    /\ HasUnknownBlock(FileAt(1))
    /\ outcomes = <<"skipped", "row">>
    /\ stored = 1
    /\ Last(events) = ExportCompleted

(***************************************************************************)
(* Properties of the runs a dialog starts (checked under DialogSpec).      *)
(***************************************************************************)
StartsWithSystem(conversation) ==
    conversation # <<>> /\ conversation[1].role = "system"
\* the texts the injected segment may hold for the template file f: the
\* stripped template, its datetime field filled in if it has one
PromptTexts(f) ==
    IF f.text = "{datetime}" THEN {TimeTexts[k] : k \in 1..Len(TimeTexts)}
    ELSE {f.text}
\* item is a system item of one Text block with one non-learnable segment
\* holding the text of template file f
IsSystemPromptItem(it, f) ==
    /\ it.role = "system"
    /\ Len(it.content) = 1
    /\ it.content[1].type = "text"
    /\ Len(it.content[1].segments) = 1
    /\ ~it.content[1].segments[1].learnable
    /\ it.content[1].segments[1].text \in PromptTexts(f)

\* C24: when a file has been encoded, the conversation handed to the encoder
\* is the file's conversation with a system prompt item put in front if the
\* conversation is empty or does not start with a system item and
\* sysprompt.txt exists, and the file's conversation unchanged otherwise
\* (template missing, or a system item already first); in both cases the
\* file's record is the encoding of that conversation.
C24_SystemPromptInjected ==
    wpc = "append" =>
      LET original == CurrentFile.data
      IN /\ IF ~StartsWithSystem(original) /\ sysprompt # None
            THEN /\ conversation_data # <<>>
                 /\ IsSystemPromptItem(Head(conversation_data), sysprompt)
                 /\ Tail(conversation_data) = original
            ELSE conversation_data = original
         /\ tokenized_data =
              process_conversation(conversation_data, include_reasoning,
                                   assistant_name)

\* the run has returned after going through all its files, nothing raised
CompleteRun == wpc = "done" /\ loop_end = "exhausted" /\ exc = NoExc

\* C22: when two runs over the same directory, template and settings have
\* each gone through all the files without an exception, the second leaves
\* the datasets the first left: as many rows, and row by row the same
\* input_ids and the same labels.
C22_SameDatasetTwice ==
    (previous # NoPrevious /\ CompleteRun) =>
      (previous.complete =>
         /\ Len(ds_input_ids) = Len(previous.input_ids)
         /\ ds_input_ids = previous.input_ids
         /\ ds_labels = previous.labels)

\* every token string of the configuration is a non-empty string
UsableTokens(config) == \A k \in DOMAIN config : config[k] # ""
\* the tokenizer file cannot be loaded, no file can be found under the root
\* directory, or a special token is unusable
InvalidConfiguration ==
    \/ tokenizer_file = "unloadable"
    \/ DOMAIN corpus = {}
    \/ ~UsableTokens(special_tokens)

\* C30: a run with an invalid configuration begins no file, never emits
\* export_completed and, when it has returned, has ended with the error
\* signal.
C30_InvalidConfigFails ==
    InvalidConfiguration =>
      /\ file_index = 0
      /\ \A n \in 1..Len(events) : events[n] # ExportCompleted
      /\ wpc = "done" => Last(events).sig = "error"

(***************************************************************************)
(* Order and labels of the returned record (checked under                  *)
(* DefaultNameSpec).                                                       *)
(***************************************************************************)
\* emission e comes before emission f in the order of the conversation:
\* items in item order, in one item the header, then the blocks in block
\* order (segments in segment order), then the end-of-turn token
InConversationOrder(e, f) ==
    \/ e.item < f.item
    \/ /\ e.item = f.item
       /\ \/ e.kind = "header" /\ f.kind # "header"
          \/ e.kind # "eot" /\ f.kind = "eot"
          \/ /\ e.kind \notin {"header", "eot"} /\ f.kind \notin {"header", "eot"}
             /\ \/ e.block < f.block
                \/ /\ e.block = f.block
                   /\ \/ e.kind = "think_start" /\ f.kind \in {"reason", "think_end"}
                      \/ e.kind = "reason" /\ f.kind = "think_end"
                      \/ e.kind = f.kind /\ e.seg < f.seg
\* the text the conversation holds now for the element emission e was made for
TextNow(e) ==
    CASE e.kind = "header" ->
           Str(header_start) \o Str(conv[e.item].role) \o Str(header_end) \o <<"\n">>
      [] e.kind \in {"text", "reason"} -> Str(SegmentOf(e).text)
      [] OTHER -> Decode(e.ids)

\* C31: in the returned record the emissions lie one after the other without
\* gap or overlap, in the order of the conversation (all of item i before all
\* of item j for i < j; in an item the header, the blocks in block order with
\* their segments in segment order, the end-of-turn token), every emission's
\* ids stand at its positions, and the conversation still holds, at the place
\* it was read from, the role or text every emission was made from.
C31_NeverReorders ==
    result.returned =>
      /\ log # <<>> /\ log[1].kind = "bos" /\ log[1].start = 0
      /\ \A n \in 1..Len(log) :
           /\ IdsOf(log[n]) = log[n].ids
           /\ log[n].lstart = log[n].start
           /\ log[n].ids = Encode(TextNow(log[n]))
           /\ n < Len(log) =>
                /\ log[n + 1].start = log[n].start + Len(log[n].ids)
                /\ InConversationOrder(log[n], log[n + 1])
      /\ Len(result.input_ids) = Last(log).start + Len(Last(log).ids)
      /\ \A i \in 1..Len(conv) :
           /\ \E n \in 1..Len(log) : log[n].kind = "header" /\ log[n].item = i
           /\ \A b \in 1..Len(conv[i].content) :
                (conv[i].content[b].type # "reason" \/ include_reasoning) =>
                  \E n \in 1..Len(log) : log[n].item = i /\ log[n].block = b

\* a returned record of two items, the first with two blocks that each put
\* ids into the record
C31_Witness ==
    /\ result.returned
    /\ Len(conv) = 2
    /\ Len(conv[1].content) = 2
    /\ \A b \in 1..2 :
         \E n \in 1..Len(log) :
           log[n].item = 1 /\ log[n].block = b /\ log[n].kind # "eot"
           /\ Len(log[n].ids) > 0

\* C33: in the returned record the two streams are equally long and every
\* label is the ignore sentinel or the id at its own position.
C33_LabelIsOwnIdOrIgnore ==
    result.returned =>
      /\ Len(result.labels) = Len(result.input_ids)
      /\ \A i \in 1..Len(result.labels) :
           \/ result.labels[i] = cross_entropy_ignore_index
           \/ result.labels[i] = result.input_ids[i]

\* a returned record with a learnable position whose id differs from the id
\* next to it, and an ignored position
C33_Witness ==
    /\ result.returned
    /\ \E i \in 1..Len(result.labels) - 1 :
         /\ result.labels[i] = result.input_ids[i]
         /\ result.labels[i + 1] = result.input_ids[i + 1]
         /\ result.input_ids[i] # result.input_ids[i + 1]
    /\ \E i \in 1..Len(result.labels) : result.labels[i] = cross_entropy_ignore_index

(***************************************************************************)
(* The reported outcome and the file handle at the end of a run (checked   *)
(* under WorkerSpec).                                                      *)
(***************************************************************************)
\* the status text the run emitted just before export_completed
ReportedStatus == events[Len(events) - 1].text
AllFilesAttempted == Len(outcomes) = Total

\* C32: a run that ended with export_completed reported "Export complete."
\* exactly if every file of the listing was attempted, and reported
\* "Export cancelled by user." only if it stopped before attempting them all,
\* whenever stop() was called.
C32_ReportMatchesRun ==
    (wpc = "done" /\ Last(events) = ExportCompleted) =>
      /\ ReportedStatus = "Export complete." <=> AllFilesAttempted
      /\ ReportedStatus = "Export cancelled by user." => ~AllFilesAttempted

\* C34: whenever the writer's file is open, size is the number of rows of
\* the dataset "input_ids" and of the dataset "labels".
C34_SizeIsRowCount ==
    file # None => /\ size = Len(ds_input_ids)
                   /\ size = Len(ds_labels)

\* C35: a terminal signal (export_completed or error) is emitted only when
\* the writer does not hold the output file: it was never opened or it has
\* been closed.
C35_TerminalOnlyWhenClosed ==
    (Len(events) > 0 /\ IsTerminal(Last(events))) => file = None

(***************************************************************************)
(* Properties of the move commands (checked under MoveItemSpec and         *)
(* MoveContentSpec).                                                       *)
(***************************************************************************)
\* C36: for every valid pair of indices, execute followed by undo leaves the
\* items in the order they had when the command was made, and execute, undo,
\* redo leaves them in the order execute alone left.
C36_MoveItemUndoRestores ==
    /\ made = <<"execute", "undo">> => conv_data = constructed
    /\ made = <<"execute", "undo", "redo">> => conv_data = executed

\* C37: for every valid source and target position, execute followed by undo
\* leaves every item with the content list it had when the command was made.
C37_MoveContentUndoRestores ==
    made = <<"execute", "undo">> =>
      /\ Len(conv_data) = Len(constructed)
      /\ \A i \in 1..Len(conv_data) :
           conv_data[i].content = constructed[i].content

(***************************************************************************)
(* The clean flag of the UndoManager (checked under UndoManagerSpec).      *)
(***************************************************************************)
\* C38: is_clean is true only if the conversation is what it was at the most
\* recent set_clean or clear.
C38_CleanMeansSaved == is_clean => conv_data = saved

(***************************************************************************)
(* One stream at a time (checked under ServiceSpec).                       *)
(***************************************************************************)
\* C39: at most one stream produces chunks at any time: of two streams
\* inside their try block one has been asked to stop, a stream that was
\* asked to stop yields no further chunk, and a stream leaves its loop by
\* the break only if it was asked to stop.
C39_OneStreamAtATime ==
    /\ \A t, u \in Threads :
         (t # u /\ InTry(t) /\ InTry(u)) =>
           (streams[t].stopped \/ streams[u].stopped)
    /\ \A t \in Threads : streams[t].late = 0
    /\ \A t \in Threads : streams[t].left = "break" => streams[t].stopped

====
